---- MODULE Spec2Model ----
(***************************************************************************)
(* Fact memory of the Telegram bot (src/bot/memory.py, class UserMemory):  *)
(* the memory_facts table, the conflict resolver _upsert_facts, the        *)
(* user-driven delete/edit paths, the listings and the ranked similarity   *)
(* search.                                                                 *)
(*                                                                         *)
(* Conventions of the model                                                *)
(*  - a table is the set of its rows, a row is a record with the columns   *)
(*    the code reads or writes;                                            *)
(*  - SQL NULL is the integer NULL for integer/timestamp columns and the   *)
(*    empty sequence for the embedding column (json.dumps is only applied  *)
(*    to a non-empty list, so "[]" is never stored);                       *)
(*  - real numbers are fixed-point integers with One = 1.0;                *)
(*  - timestamps are whole days since the start of the run;                *)
(*  - a text is a sequence of characters, so that str.strip() is computed; *)
(*  - every public method is called from the position "idle"; the call     *)
(*    and its result stay observable in (call, ret) until Return.          *)
(***************************************************************************)
EXTENDS Integers, Sequences, FiniteSets, TLC

VARIABLES
    facts,        \* rows of memory_facts
    nextId,       \* next AUTOINCREMENT id of memory_facts
    memberships,  \* rows of chat_memberships: <<user_id, chat_id>>
    profiles,     \* rows of user_profiles
    now,          \* the wall clock, in days
    events,       \* rows of scheduled_events
    nextEventId,  \* next AUTOINCREMENT id of scheduled_events
    hour,         \* the wall clock: the UTC hour of the day `now`
    config,       \* the environment settings of the scheduler
    daily_counts, \* ProactiveScheduler._daily_counts
    jobs,         \* the scheduler callbacks: where each one is
    journal,      \* what the scheduler did, in order: messages sent, resets
    sessions,     \* SessionManager._sessions: the history of each chat
    summarized_count, \* SessionManager._summarized_count
    memories,     \* the memory statements of the agent's tools, in id order
    effects,      \* what handle_message asked of the LLM and sent to the chat, in order
    schema,       \* the tables scheduled_events and scheduled_events_new of the database
    migration,    \* how far the rebuild of scheduled_events has got
    graph,        \* the run of the agent graph: its node, its messages, its steps
    job_queue,    \* the pending run_once jobs of the JobQueue
    pending_edits, \* memory_handlers._pending_edits: (chat_id, user_id) -> (fact_id, target_user_id)
    call,         \* the method call in progress or just finished
    ret           \* its return value

vars == <<facts, nextId, memberships, profiles, now, events, nextEventId, hour, config,
          daily_counts, jobs, journal, sessions, summarized_count, memories,
          effects, schema, migration, graph, job_queue, pending_edits, call, ret>>

schedulerVars == <<hour, config, daily_counts, jobs, journal>>
sessionVars == <<sessions, summarized_count>>
agentVars == <<memories, effects>>
migrationVars == <<schema, migration>>
handlerVars == <<graph, job_queue, pending_edits>>

(***************************************************************************)
(* Bounds of the model                                                     *)
(***************************************************************************)
MaxFacts == 2
MaxTime == 2
MaxUse == 1
MaxEvents == 3
MaxMessages == 2
\* SessionManager(max_messages=...)
max_messages == 3
MaxArrivals == 4
\* SUMMARY_THRESHOLD, at most max_messages
SUMMARY_THRESHOLD == 2
MaxMemories == 3
MaxJournal == 3
LongGap == 600

(***************************************************************************)
(* Values                                                                  *)
(***************************************************************************)
One == 1000 * 1000
NULL == 0 - 999
NullEmb == <<>>
UNDEFINED == 0 - (2 * One)

Users == {1, 2}
Chats == {100, 200}

Max(a, b) == IF a >= b THEN a ELSE b
Min(a, b) == IF a <= b THEN a ELSE b

(***************************************************************************)
(* Module-level helpers of memory.py                                       *)
(***************************************************************************)
\* A raw JSON/python value handed to float(): a number (fixed point), None,
\* or a non-numeric string.
Num(v) == [t |-> "num", v |-> v]
PyNone == [t |-> "none", v |-> 0]
PyStr == [t |-> "str", v |-> 0]
Absent == [t |-> "absent", v |-> 0]

\* The clamp without its lower bound.
ClampAtMostOne(value) ==
    IF value.t = "num" THEN Min(One, value.v) ELSE 0

Clamp01(value) ==
    IF value.t = "num" THEN Max(0, Min(One, value.v)) ELSE 0

\* dict.get(key, default)
GetOr(value, default) == IF value = Absent THEN default ELSE value

\* item.get("action", "keep_add_new"): the key may be missing
AbsentAction == "<absent>"
GetAction(item) ==
    IF item.action = AbsentAction THEN "keep_add_new" ELSE item.action

ParseTs(ts, clock) == IF ts = NULL THEN clock ELSE ts

RECURSIVE DotProduct(_, _)
DotProduct(a, b) ==
    IF a = <<>> \/ b = <<>> THEN 0
    ELSE Head(a) * Head(b) + DotProduct(Tail(a), Tail(b))

\* math.sqrt on the sums of squares the model's vectors produce (all are
\* perfect squares, so the root is exact).
Sqrt(n) == CHOOSE r \in 0..n : r * r <= n /\ (r + 1) * (r + 1) > n

\* A similarity of 0 where the code has none to give.
CosineSimilarityOrZero(vec_a, vec_b) ==
    IF Len(vec_a) # Len(vec_b) THEN 0
    ELSE LET mag_a == Sqrt(DotProduct(vec_a, vec_a))
             mag_b == Sqrt(DotProduct(vec_b, vec_b))
         IN  IF mag_a = 0 \/ mag_b = 0 THEN 0
             ELSE (DotProduct(vec_a, vec_b) * One) \div (mag_a * mag_b)

CosineSimilarity(vec_a, vec_b) ==
    IF Len(vec_a) # Len(vec_b) THEN UNDEFINED
    ELSE LET mag_a == Sqrt(DotProduct(vec_a, vec_a))
             mag_b == Sqrt(DotProduct(vec_b, vec_b))
         IN  IF mag_a = 0 \/ mag_b = 0 THEN UNDEFINED
             ELSE (DotProduct(vec_a, vec_b) * One) \div (mag_a * mag_b)

\* str.strip() on a sequence of characters
RECURSIVE LStrip(_)
LStrip(s) == IF s # <<>> /\ Head(s) = " " THEN LStrip(Tail(s)) ELSE s

RECURSIVE RStrip(_)
RStrip(s) ==
    IF s # <<>> /\ s[Len(s)] = " " THEN RStrip(SubSeq(s, 1, Len(s) - 1)) ELSE s

Strip(s) == RStrip(LStrip(s))

\* The normalisation without lower().
StripAction(raw) ==
    CASE raw = " NOOP " -> "NOOP"
      [] OTHER -> raw

\* str(...).strip().lower() on the action strings the model uses
NormalizeAction(raw) ==
    CASE raw = " NOOP " -> "noop"
      [] raw = "Update_Existing" -> "update_existing"
      [] OTHER -> raw

\* target_fact_id: int(x) if x is not None else None, None on TypeError/ValueError
NoTarget == [t |-> "none", v |-> 0]
IntTarget(n) == [t |-> "num", v |-> n]
BadTarget == [t |-> "str", v |-> 0]

ParseTargetId(raw) == IF raw.t = "num" THEN raw.v ELSE NULL

Coalesce(x, d) == IF x = NULL THEN d ELSE x

(***************************************************************************)
(* _upsert_facts                                                           *)
(***************************************************************************)
SameOwnerKey(f, scope, user_id, chat_id) ==
    /\ f.scope = scope
    /\ Coalesce(f.user_id, -1) = Coalesce(user_id, -1)
    /\ Coalesce(f.chat_id, -1) = Coalesce(chat_id, -1)

\* The target lookup without its scope/owner conditions.
TargetExistsAnyOwner(rows, target_fact_id, scope, user_id, chat_id) ==
    \E f \in rows : f.id = target_fact_id

\* SELECT id ... WHERE id = ? AND scope = ? AND user_id = ? AND chat_id = ?
TargetExists(rows, target_fact_id, scope, user_id, chat_id) ==
    \E f \in rows : f.id = target_fact_id /\ SameOwnerKey(f, scope, user_id, chat_id)

\* SELECT id ... WHERE scope = ? AND user_id = ? AND chat_id = ? AND fact_text = ?
ExactTextMatches(rows, scope, user_id, chat_id, fact_text) ==
    {f \in rows : SameOwnerKey(f, scope, user_id, chat_id) /\ f.fact_text = fact_text}

\* fetchone(): the first matching row in rowid order
FirstId(rs) == CHOOSE i \in {f.id : f \in rs} : \A f \in rs : i <= f.id

\* A soft delete that removes the row instead.
DeleteTarget(rows, target_fact_id, ts) ==
    {f \in rows : f.id # target_fact_id}

\* UPDATE memory_facts SET is_active = 0, updated_at = ? WHERE id = ?
DeactivateTarget(rows, target_fact_id, ts) ==
    {IF f.id = target_fact_id
     THEN [f EXCEPT !.is_active = 0, !.updated_at = ts]
     ELSE f : f \in rows}

\* A candidate is a dict; anything else in the list (a string, say) has no
\* .get and makes item.get(...) raise AttributeError.
NotADict == [py |-> "str"]
IsDict(item) == "fact" \in DOMAIN item

\* One iteration of the loop over `facts`: st = [rows, next, raised] is the
\* table and its id sequence inside the open transaction, and whether an
\* exception has left the loop.
UpsertItem(st, scope, user_id, chat_id, item, ts) ==
    IF st.raised THEN st
    ELSE IF ~IsDict(item) THEN [st EXCEPT !.raised = TRUE]
    ELSE
    LET fact_text == Strip(item.fact)
        importance == Clamp01(GetOr(item.importance, Num(One \div 2)))
        confidence == Clamp01(GetOr(item.confidence, Num((One \div 10) * 8)))
        emb_json == item.embedding
        action == NormalizeAction(GetAction(item))
        target_fact_id == ParseTargetId(item.target_fact_id)
        Overwrite(f) ==
            [f EXCEPT !.fact_text = fact_text,
                      !.embedding = IF emb_json = NullEmb THEN @ ELSE emb_json,
                      !.importance = importance,
                      !.confidence = confidence,
                      !.is_active = 1,
                      !.updated_at = ts]
        Refresh(f) ==
            [f EXCEPT !.embedding = IF emb_json = NullEmb THEN @ ELSE emb_json,
                      !.importance = importance,
                      !.confidence = confidence,
                      !.is_active = 1,
                      !.updated_at = ts]
        existing == ExactTextMatches(st.rows, scope, user_id, chat_id, fact_text)
        inserted ==
            [id |-> st.next, scope |-> scope, user_id |-> user_id,
             chat_id |-> chat_id, fact_text |-> fact_text,
             embedding |-> emb_json, importance |-> importance,
             confidence |-> confidence, is_active |-> 1, use_count |-> 0,
             last_used_at |-> NULL, updated_at |-> ts]
    IN  IF fact_text = <<>> THEN st
        ELSE IF action = "noop" THEN st
        ELSE IF /\ action \in {"update_existing", "deactivate_existing"}
                /\ target_fact_id # NULL
                /\ TargetExists(st.rows, target_fact_id, scope, user_id, chat_id)
             THEN IF action = "deactivate_existing"
                  THEN [st EXCEPT !.rows = DeactivateTarget(@, target_fact_id, ts)]
                  ELSE [st EXCEPT !.rows = {IF f.id = target_fact_id THEN Overwrite(f)
                                          ELSE f : f \in st.rows}]
        ELSE IF existing # {}
             THEN [st EXCEPT !.rows = {IF f.id = FirstId(existing) THEN Refresh(f)
                                     ELSE f : f \in st.rows}]
        ELSE [st EXCEPT !.rows = @ \cup {inserted}, !.next = @ + 1]

RECURSIVE UpsertLoop(_, _, _, _, _, _)
UpsertLoop(st, scope, user_id, chat_id, items, ts) ==
    IF items = <<>> THEN st
    ELSE UpsertLoop(UpsertItem(st, scope, user_id, chat_id, Head(items), ts),
                    scope, user_id, chat_id, Tail(items), ts)

\* Rows the loop would insert: the bound MaxFacts caps the id sequence.
WithinCapacity(st) == st.next <= MaxFacts + 1

Idle == [op |-> "idle"]
NoRet == [t |-> "none"]
Raised == [t |-> "raise"]

\* with sqlite3.connect(...) as conn: commits when the block ends, rolls back
\* (the id sequence too) when an exception leaves it; the exception goes on to
\* the caller.
UpsertFacts(scope, user_id, chat_id, items) ==
    LET st == UpsertLoop([rows |-> facts, next |-> nextId, raised |-> FALSE],
                         scope, user_id, chat_id, items, now)
    IN  /\ call = Idle
        /\ WithinCapacity(st)
        /\ facts' = IF st.raised THEN facts ELSE st.rows
        /\ nextId' = IF st.raised THEN nextId ELSE st.next
        /\ call' = [op |-> "upsert_facts", scope |-> scope, user_id |-> user_id,
                    chat_id |-> chat_id, facts |-> items]
        /\ ret' = IF st.raised THEN Raised ELSE NoRet
        /\ UNCHANGED <<handlerVars, migrationVars, agentVars, sessionVars, schedulerVars, events, nextEventId, memberships, profiles, now>>

UpsertUserFacts(user_id, chat_id, items) ==
    UpsertFacts("user", user_id, chat_id, items)

UpsertChatFacts(chat_id, items) ==
    UpsertFacts("chat", NULL, chat_id, items)

(***************************************************************************)
(* User profiles: increment_message_count, get_profile, update_profile     *)
(***************************************************************************)
\* SELECT profile FROM user_profiles WHERE user_id = ?; row[0] if row and
\* row[0] else ""
GetProfileResult(rows, user_id) ==
    IF \E r \in rows : r.user_id = user_id
    THEN (CHOOSE r \in rows : r.user_id = user_id).profile
    ELSE <<>>

\* INSERT ... ON CONFLICT(user_id) DO UPDATE
UpsertProfileRow(rows, user_id, username, first_name) ==
    IF \E r \in rows : r.user_id = user_id
    THEN {IF r.user_id = user_id
          THEN [r EXCEPT !.msg_count = @ + 1, !.username = username,
                         !.first_name = first_name]
          ELSE r : r \in rows}
    ELSE rows \cup {[user_id |-> user_id, username |-> username,
                     first_name |-> first_name, profile |-> <<>>,
                     profile_embedding |-> NullEmb, msg_count |-> 1,
                     updated_at |-> NULL]}

IncrementMessageCount(user_id, chat_id, username, first_name) ==
    /\ call = Idle
    /\ \A r \in profiles : r.user_id = user_id => r.msg_count < MaxMessages
    /\ profiles' = UpsertProfileRow(profiles, user_id, username, first_name)
    /\ memberships' = memberships \cup {<<user_id, chat_id>>}
    /\ call' = [op |-> "increment_message_count", user_id |-> user_id,
                chat_id |-> chat_id]
    /\ ret' = [t |-> "count",
               v |-> (CHOOSE r \in profiles' : r.user_id = user_id).msg_count]
    /\ UNCHANGED <<handlerVars, migrationVars, agentVars, sessionVars, schedulerVars, events, nextEventId, facts, nextId, now>>

GetProfile(user_id) ==
    /\ call = Idle
    /\ call' = [op |-> "get_profile", user_id |-> user_id]
    /\ ret' = [t |-> "profile", v |-> GetProfileResult(profiles, user_id)]
    /\ UNCHANGED <<handlerVars, migrationVars, agentVars, sessionVars, schedulerVars, events, nextEventId, facts, nextId, memberships,
                   profiles, now>>

\* UPDATE user_profiles SET ... WHERE user_id = ?; an embedding that is None
\* or empty is stored as NULL
UpdateProfileRows(rows, user_id, profile, embedding, ts) ==
    {IF r.user_id = user_id
     THEN [r EXCEPT !.profile = profile, !.profile_embedding = embedding,
                    !.updated_at = ts]
     ELSE r : r \in rows}

UpdateProfile(user_id, profile, embedding) ==
    /\ call = Idle
    /\ profiles' = UpdateProfileRows(profiles, user_id, profile, embedding, now)
    /\ call' = [op |-> "update_profile", user_id |-> user_id, profile |-> profile,
                embedding |-> embedding]
    /\ ret' = NoRet
    /\ UNCHANGED <<handlerVars, migrationVars, agentVars, sessionVars, schedulerVars, events, nextEventId, facts, nextId, memberships,
                   now>>

(***************************************************************************)
(* delete_fact, update_fact_text, mark_facts_used                          *)
(***************************************************************************)
\* The WHERE clause without its user_id condition.
AnyUserFact(f, fact_id, user_id) ==
    f.id = fact_id /\ f.scope = "user"

OwnedUserFact(f, fact_id, user_id) ==
    f.id = fact_id /\ f.user_id = user_id /\ f.scope = "user"

DeleteFact(fact_id, user_id) ==
    LET hit == {f \in facts : OwnedUserFact(f, fact_id, user_id)}
    IN  /\ call = Idle
        /\ facts' = facts \ hit
        /\ call' = [op |-> "delete_fact", fact_id |-> fact_id, user_id |-> user_id]
        /\ ret' = [t |-> "bool", v |-> Cardinality(hit) > 0]
        /\ UNCHANGED <<handlerVars, migrationVars, agentVars, sessionVars, schedulerVars, events, nextEventId, nextId, memberships, profiles, now>>

UpdateFactText(fact_id, user_id, new_text) ==
    LET hit == {f \in facts : OwnedUserFact(f, fact_id, user_id)}
        Edit(f) == [f EXCEPT !.fact_text = new_text, !.embedding = NullEmb,
                             !.updated_at = now]
    IN  /\ call = Idle
        /\ facts' = {IF f \in hit THEN Edit(f) ELSE f : f \in facts}
        /\ call' = [op |-> "update_fact_text", fact_id |-> fact_id,
                    user_id |-> user_id, new_text |-> new_text]
        /\ ret' = [t |-> "bool", v |-> Cardinality(hit) > 0]
        /\ UNCHANGED <<handlerVars, migrationVars, agentVars, sessionVars, schedulerVars, events, nextEventId, nextId, memberships, profiles, now>>

SeqRange(s) == {s[i] : i \in 1..Len(s)}

\* One UPDATE per element of fact_ids: a repeated id counts twice.
MarkFactsUsedPerOccurrence(fact_ids) ==
    LET Times(f) == Cardinality({i \in 1..Len(fact_ids) : fact_ids[i] = f.id})
        Use(f) == [f EXCEPT !.use_count = @ + Times(f), !.last_used_at = now]
    IN  /\ call = Idle
        /\ \A f \in facts : f.id \in SeqRange(fact_ids) => f.use_count < MaxUse
        /\ facts' = {IF f.id \in SeqRange(fact_ids) THEN Use(f) ELSE f : f \in facts}
        /\ call' = [op |-> "mark_facts_used", fact_ids |-> fact_ids]
        /\ ret' = NoRet
        /\ UNCHANGED <<handlerVars, migrationVars, agentVars, sessionVars, schedulerVars, events, nextEventId, nextId, memberships, profiles, now>>

MarkFactsUsed(fact_ids) ==
    LET Use(f) == [f EXCEPT !.use_count = @ + 1, !.last_used_at = now]
    IN  /\ call = Idle
        /\ \A f \in facts : f.id \in SeqRange(fact_ids) => f.use_count < MaxUse
        /\ facts' = IF fact_ids = <<>> THEN facts
                    ELSE {IF f.id \in SeqRange(fact_ids) THEN Use(f) ELSE f : f \in facts}
        /\ call' = [op |-> "mark_facts_used", fact_ids |-> fact_ids]
        /\ ret' = NoRet
        /\ UNCHANGED <<handlerVars, migrationVars, agentVars, sessionVars, schedulerVars, events, nextEventId, nextId, memberships, profiles, now>>

(***************************************************************************)
(* Listings                                                                *)
(***************************************************************************)
\* ORDER BY updated_at DESC; rows with equal updated_at in rowid order
RECURSIVE OrderByUpdatedDesc(_)
OrderByUpdatedDesc(rows) ==
    IF rows = {} THEN <<>>
    ELSE LET first == CHOOSE f \in rows : \A g \in rows :
                          \/ f.updated_at > g.updated_at
                          \/ (f.updated_at = g.updated_at /\ f.id <= g.id)
         IN  <<first>> \o OrderByUpdatedDesc(rows \ {first})

\* LIMIT n OFFSET k
LimitOffset(s, n, k) == SubSeq(s, k + 1, Min(Len(s), k + n))

ActiveUserFacts(rows, user_id) ==
    {f \in rows : f.scope = "user" /\ f.user_id = user_id /\ f.is_active = 1}

ActiveChatFacts(rows, chat_id) ==
    {f \in rows : f.scope = "chat" /\ f.chat_id = chat_id /\ f.is_active = 1}

GetUserFactsResult(rows, user_id, limit) ==
    LET s == LimitOffset(OrderByUpdatedDesc(ActiveUserFacts(rows, user_id)), limit, 0)
    IN  [i \in 1..Len(s) |-> s[i].fact_text]

GetChatFactsResult(rows, chat_id, limit) ==
    LET s == LimitOffset(OrderByUpdatedDesc(ActiveChatFacts(rows, chat_id)), limit, 0)
    IN  [i \in 1..Len(s) |-> s[i].fact_text]

\* OFFSET counted in pages instead of rows.
GetUserFactsPageOffsetInPages(rows, user_id, page, page_size) ==
    LET total == Cardinality(ActiveUserFacts(rows, user_id))
        s == LimitOffset(OrderByUpdatedDesc(ActiveUserFacts(rows, user_id)),
                         page_size, page)
    IN  [facts |-> [i \in 1..Len(s) |-> [id |-> s[i].id, fact_text |-> s[i].fact_text]],
         total |-> total]

GetUserFactsPageResult(rows, user_id, page, page_size) ==
    LET offset == page * page_size
        total == Cardinality(ActiveUserFacts(rows, user_id))
        s == LimitOffset(OrderByUpdatedDesc(ActiveUserFacts(rows, user_id)),
                         page_size, offset)
    IN  [facts |-> [i \in 1..Len(s) |-> [id |-> s[i].id, fact_text |-> s[i].fact_text]],
         total |-> total]

ReadOnly(c, r) ==
    /\ call = Idle
    /\ call' = c
    /\ ret' = r
    /\ UNCHANGED <<handlerVars, migrationVars, agentVars, sessionVars, schedulerVars, events, nextEventId, facts, nextId, memberships, profiles, now>>

GetUserFacts(user_id, limit) ==
    ReadOnly([op |-> "get_user_facts", user_id |-> user_id, limit |-> limit],
             [t |-> "texts", v |-> GetUserFactsResult(facts, user_id, limit)])

GetChatFacts(chat_id, limit) ==
    ReadOnly([op |-> "get_chat_facts", chat_id |-> chat_id, limit |-> limit],
             [t |-> "texts", v |-> GetChatFactsResult(facts, chat_id, limit)])

GetUserFactsPage(user_id, page, page_size) ==
    ReadOnly([op |-> "get_user_facts_page", user_id |-> user_id, page |-> page,
              page_size |-> page_size],
             [t |-> "page", v |-> GetUserFactsPageResult(facts, user_id, page, page_size)])

(***************************************************************************)
(* Similarity search: find_similar_facts and search_facts_by_embedding     *)
(***************************************************************************)
FACT_RECENCY_DECAY_DAYS == 14
FACT_WEIGHT_SEMANTIC == 60
FACT_WEIGHT_RECENCY == 25
FACT_WEIGHT_IMPORTANCE == 15
SECONDS_PER_DAY == 86400
ExpTerms == 12

\* math.exp(-num / den) in fixed point, by its power series
\*   sum over k of (-1)^k (num/den)^k / k!
RECURSIVE ExpSeries(_, _, _, _)
ExpSeries(num, den, k, term) ==
    IF k > ExpTerms \/ term = 0 THEN 0
    ELSE LET next == (term * num) \div (den * k)
         IN  (IF k % 2 = 1 THEN 0 - next ELSE next) + ExpSeries(num, den, k + 1, next)

\* x * exp(-1), the factor 0.367879 applied in two parts to stay in 32 bits
TimesExpMinusOne(x) == (x * 367) \div 1000 + (x * 879) \div One

\* math.exp(-num / den) for num, den >= 0: exp(-1) to the power of the whole
\* part of num / den, times the series of the fractional part, rounded toward
\* zero to a multiple of 1 / One (which is 0 from exp(-14) on). Added to terms
\* of 0.1 or more, a recency of 0 leaves the sum as it is; in the double
\* arithmetic of the code a recency below exp(-37) does.
RECURSIVE ExpNeg(_, _)
ExpNeg(num, den) ==
    IF num >= 14 * den THEN 0
    ELSE IF num >= den THEN LET rest == ExpNeg(num - den, den)
                            IN  TimesExpMinusOne(rest)
    ELSE One + ExpSeries(num, den, 1, One)

\* results.sort(key=..., reverse=True): a stable sort of the rows, which were
\* fetched in rowid order.
SortDesc(rs, key) ==
    LET Before(o, r) ==
            \/ o[key] > r[key]
            \/ (o[key] = r[key] /\ o.fact_id < r.fact_id)
    IN  [i \in 1..Cardinality(rs) |->
            CHOOSE r \in rs : Cardinality({o \in rs : Before(o, r)}) = i - 1]

\* A slice that is one entry too long.
TruncateOneMore(s, limit) == SubSeq(s, 1, Min(Len(s), limit + 1))

\* s[:limit] for limit >= 0
Truncate(s, limit) == SubSeq(s, 1, Min(Len(s), limit))

FindSimilarFactsResult(rows, scope, query_embedding, user_id, chat_id, limit, min_semantic) ==
    IF query_embedding = <<>> \/ scope \notin {"user", "chat"} THEN <<>>
    ELSE IF scope = "user" /\ user_id = NULL THEN <<>>
    ELSE IF scope = "chat" /\ chat_id = NULL THEN <<>>
    ELSE
      LET selected ==
              {f \in rows :
                  /\ f.is_active = 1
                  /\ f.embedding # NullEmb
                  /\ IF scope = "user"
                     THEN f.scope = "user" /\ f.user_id = user_id
                     ELSE f.scope = "chat" /\ f.chat_id = chat_id}
          results ==
              {[fact_id |-> f.id, fact_text |-> f.fact_text,
                similarity |-> CosineSimilarity(f.embedding, query_embedding)] :
                  f \in {g \in selected :
                            LET similarity == CosineSimilarity(g.embedding, query_embedding)
                            IN  ~(similarity = UNDEFINED \/ similarity < min_semantic)}}
      IN  Truncate(SortDesc(results, "similarity"), limit)

\* The WHERE clause with a subquery that forgets its chat_id condition.
VisibleToMemberOfAnyChat(f, members, chat_id, asking_user_id) ==
    /\ f.is_active = 1
    /\ f.embedding # NullEmb
    /\ \/ (f.scope = "chat" /\ f.chat_id = chat_id)
       \/ (f.scope = "user" /\ f.user_id = asking_user_id)
       \/ (f.scope = "user" /\ f.user_id \in {m[1] : m \in members})

\* The WHERE clause of the search query
VisibleTo(f, members, chat_id, asking_user_id) ==
    /\ f.is_active = 1
    /\ f.embedding # NullEmb
    /\ \/ (f.scope = "chat" /\ f.chat_id = chat_id)
       \/ (f.scope = "user" /\ f.user_id = asking_user_id)
       \/ (f.scope = "user"
            /\ f.user_id \in {m[1] : m \in {mm \in members : mm[2] = chat_id}})

\* The cooldown test with <= in place of <.
InCooldownInclusive(f, clock, cooldown_seconds) ==
    /\ f.last_used_at # NULL
    /\ (clock - ParseTs(f.last_used_at, clock)) * SECONDS_PER_DAY <= cooldown_seconds

\* if last_used_at: ... if (now_dt - last_used_dt).total_seconds() < cooldown_seconds
InCooldown(f, clock, cooldown_seconds) ==
    /\ f.last_used_at # NULL
    /\ (clock - ParseTs(f.last_used_at, clock)) * SECONDS_PER_DAY < cooldown_seconds

Recency(f, clock) ==
    LET age_days == Max(clock - ParseTs(f.updated_at, clock), 0)
    IN  ExpNeg(age_days, FACT_RECENCY_DECAY_DAYS)

\* One scored result row; the score is in units of One / 100.
ScoredRow(f, query_embedding, clock) ==
    LET semantic == CosineSimilarity(f.embedding, query_embedding)
        recency == Recency(f, clock)
        importance_score == Clamp01(Num(f.importance))
    IN  [fact_id |-> f.id, scope |-> f.scope, user_id |-> f.user_id,
         chat_id |-> f.chat_id, fact_text |-> f.fact_text,
         semantic_score |-> semantic, recency_score |-> recency,
         importance_score |-> importance_score,
         score |-> FACT_WEIGHT_SEMANTIC * semantic
                   + FACT_WEIGHT_RECENCY * recency
                   + FACT_WEIGHT_IMPORTANCE * importance_score]

SearchFactsResult(rows, members, clock, query_embedding, chat_id, asking_user_id, limit, min_semantic, cooldown_seconds) ==
    IF query_embedding = <<>> THEN <<>>
    ELSE
      LET selected == {f \in rows : VisibleTo(f, members, chat_id, asking_user_id)}
          kept ==
              {f \in selected :
                  LET semantic == CosineSimilarity(f.embedding, query_embedding)
                  IN  /\ ~(semantic = UNDEFINED \/ semantic < min_semantic)
                      /\ ~InCooldown(f, clock, cooldown_seconds)}
          results == {ScoredRow(f, query_embedding, clock) : f \in kept}
      IN  Truncate(SortDesc(results, "score"), limit)

FindSimilarFacts(scope, query_embedding, user_id, chat_id, limit, min_semantic) ==
    ReadOnly([op |-> "find_similar_facts", scope |-> scope,
              query_embedding |-> query_embedding, user_id |-> user_id,
              chat_id |-> chat_id, limit |-> limit, min_semantic |-> min_semantic],
             [t |-> "similar",
              v |-> FindSimilarFactsResult(facts, scope, query_embedding, user_id,
                                           chat_id, limit, min_semantic)])

SearchFactsByEmbedding(query_embedding, chat_id, asking_user_id, limit, min_semantic, cooldown_seconds) ==
    ReadOnly([op |-> "search_facts_by_embedding",
              query_embedding |-> query_embedding, chat_id |-> chat_id,
              asking_user_id |-> asking_user_id, limit |-> limit,
              min_semantic |-> min_semantic, cooldown_seconds |-> cooldown_seconds],
             [t |-> "scored",
              v |-> SearchFactsResult(facts, memberships, now, query_embedding,
                                      chat_id, asking_user_id, limit, min_semantic,
                                      cooldown_seconds)])

(***************************************************************************)
(* Scheduled events                                                        *)
(***************************************************************************)
\* CHECK(event_type IN (...)) of the scheduled_events table
ValidEventTypes == {"birthday", "anniversary", "holiday", "custom"}

\* The rank of an event_type in the text order of ORDER BY
EventTypeRank(event_type) ==
    CHOOSE i \in 1..4 : <<"anniversary", "birthday", "custom", "holiday">>[i] = event_type

\* The lookup with user_id = ? in place of the COALESCE comparison: NULL is
\* equal to nothing, not even to NULL.
ExistingEventUserIdEquals(rows, user_id, chat_id, event_type, title) ==
    {e \in rows :
        /\ e.user_id # NULL /\ user_id # NULL /\ e.user_id = user_id
        /\ e.chat_id = chat_id
        /\ e.event_type = event_type
        /\ e.title = title
        /\ e.is_active = 1}

\* The SELECT of upsert_scheduled_event
ExistingEvent(rows, user_id, chat_id, event_type, title) ==
    {e \in rows :
        /\ Coalesce(e.user_id, 0 - 1) = Coalesce(user_id, 0 - 1)
        /\ e.chat_id = chat_id
        /\ e.event_type = event_type
        /\ e.title = title
        /\ e.is_active = 1}

UpsertScheduledEvent(user_id, chat_id, event_type, event_date, title, source_fact_id) ==
    LET existing == ExistingEvent(events, user_id, chat_id, event_type, title)
        inserted == [id |-> nextEventId, user_id |-> user_id, chat_id |-> chat_id,
                     event_type |-> event_type, event_date |-> event_date,
                     title |-> title, source_fact_id |-> source_fact_id,
                     last_triggered |-> NULL, is_active |-> 1,
                     created_at |-> now, updated_at |-> now]
        Updated(e) == [e EXCEPT !.event_date = event_date,
                                !.title = title,
                                !.source_fact_id = Coalesce(source_fact_id, @),
                                !.updated_at = now]
    IN  /\ call = Idle
        /\ existing = {} => nextEventId <= MaxEvents
        /\ call' = [op |-> "upsert_scheduled_event", user_id |-> user_id,
                    chat_id |-> chat_id, event_type |-> event_type,
                    event_date |-> event_date, title |-> title,
                    source_fact_id |-> source_fact_id]
        /\ IF existing # {}
           THEN /\ events' = {IF e.id = FirstId(existing) THEN Updated(e) ELSE e :
                                e \in events}
                /\ nextEventId' = nextEventId
                /\ ret' = NoRet
           ELSE IF event_type \notin ValidEventTypes
           THEN /\ UNCHANGED <<events, nextEventId>>
                /\ ret' = Raised
           ELSE /\ events' = events \cup {inserted}
                /\ nextEventId' = nextEventId + 1
                /\ ret' = NoRet
        /\ UNCHANGED <<handlerVars, migrationVars, agentVars, sessionVars, schedulerVars, facts, nextId, memberships, profiles, now>>

\* s ends with suffix
EndsWith(s, suffix) ==
    /\ Len(s) >= Len(suffix)
    /\ SubSeq(s, Len(s) - Len(suffix) + 1, Len(s)) = suffix

\* The comparison without its LIKE branch.
MatchesDateExactly(event_date, date_mmdd) == event_date = date_mmdd

\* event_date = ? OR event_date LIKE '%-' || ?
MatchesDate(event_date, date_mmdd) ==
    \/ event_date = date_mmdd
    \/ EndsWith(event_date, <<"-">> \o date_mmdd)

\* ORDER BY chat_id, event_type; rows that agree on both in rowid order
OrderByChatAndType(rows) ==
    LET Before(o, r) ==
            \/ o.chat_id < r.chat_id
            \/ /\ o.chat_id = r.chat_id
               /\ EventTypeRank(o.event_type) < EventTypeRank(r.event_type)
            \/ /\ o.chat_id = r.chat_id
               /\ o.event_type = r.event_type
               /\ o.id < r.id
    IN  [i \in 1..Cardinality(rows) |->
            CHOOSE r \in rows : Cardinality({o \in rows : Before(o, r)}) = i - 1]

GetEventsForDateResult(rows, date_mmdd) ==
    LET s == OrderByChatAndType({e \in rows : /\ e.is_active = 1
                                              /\ MatchesDate(e.event_date, date_mmdd)})
    IN  [i \in 1..Len(s) |->
            [id |-> s[i].id, user_id |-> s[i].user_id, chat_id |-> s[i].chat_id,
             event_type |-> s[i].event_type, event_date |-> s[i].event_date,
             title |-> s[i].title, source_fact_id |-> s[i].source_fact_id,
             last_triggered |-> s[i].last_triggered]]

GetEventsForDate(date_mmdd) ==
    ReadOnly([op |-> "get_events_for_date", date_mmdd |-> date_mmdd],
             [t |-> "events", v |-> GetEventsForDateResult(events, date_mmdd)])

MarkEventTriggered(event_id) ==
    /\ call = Idle
    /\ events' = {IF e.id = event_id THEN [e EXCEPT !.last_triggered = now] ELSE e :
                    e \in events}
    /\ call' = [op |-> "mark_event_triggered", event_id |-> event_id]
    /\ ret' = NoRet
    /\ UNCHANGED <<handlerVars, migrationVars, agentVars, sessionVars, schedulerVars, facts, nextId, memberships, profiles, now, nextEventId>>

(***************************************************************************)
(* The proactive scheduler                                                 *)
(***************************************************************************)
\* PROACTIVE_DAILY_LIMIT and the UTC offset of PROACTIVE_TIMEZONE when the
\* environment sets neither (Europe/Kyiv in winter)
PROACTIVE_DAILY_LIMIT == 4
KyivOffset == 2
HoursPerDay == 24

SchedulerChats == {100, 200}
JobNames == {"check_dates", "run_engagement", "break_silence"}

\* datetime.now(PROACTIVE_TIMEZONE): hours since 00:00 UTC of day 0, moved
\* by the offset of the zone
LocalHours == now * HoursPerDay + hour + config.tz
LocalDay == LocalHours \div HoursPerDay
LocalHour == LocalHours % HoursPerDay

\* Day 0 is the 15th of March 2026.
Digits == <<"0", "1", "2", "3", "4", "5", "6", "7", "8", "9">>
Year2026 == <<"2", "0", "2", "6">>

\* strftime("%m-%d")
StrftimeMmdd(day) == <<"0", "3", "-", "1", Digits[day + 6]>>

\* strftime("%Y-%m-%d"), which is also the first 10 characters of isoformat()
StrftimeDate(day) == Year2026 \o <<"-">> \o StrftimeMmdd(day)

\* The night test with > in place of >=.
IsNightTimeAfterEleven(h) == h > 23 \/ h < 8

IsNightTime(h) == h >= 23 \/ h < 8

CanSend(counts, chat_id) == counts[chat_id] < config.daily_limit

RecordSent(counts, chat_id) == [counts EXCEPT ![chat_id] = @ + 1]

NoCounts == [c \in SchedulerChats |-> 0]

JobIdle(outcome, h) == [pc |-> "idle", outcome |-> outcome, hour |-> h]

\* if last and last[:10] == today_date
TriggeredToday(e, today) ==
    /\ e.last_triggered # NULL
    /\ StrftimeDate(e.last_triggered) = StrftimeDate(today)

\* A grouping by chat only: the events of every type go into one message.
RECURSIVE GroupEventsByChat(_)
GroupEventsByChat(pending) ==
    IF pending = <<>> THEN <<>>
    ELSE LET first == Head(pending)
             Same(e) == e.chat_id = first.chat_id
             group == {pending[i].id : i \in {j \in 1..Len(pending) : Same(pending[j])}}
             rest == SelectSeq(pending, LAMBDA e : ~Same(e))
         IN  <<[chat_id |-> first.chat_id, event_type |-> first.event_type,
                ids |-> group]>> \o GroupEventsByChat(rest)

\* groups: the pending events by (chat_id, event_type), in the order of
\* their first event
RECURSIVE GroupEvents(_)
GroupEvents(pending) ==
    IF pending = <<>> THEN <<>>
    ELSE LET first == Head(pending)
             Same(e) == e.chat_id = first.chat_id /\ e.event_type = first.event_type
             group == {pending[i].id : i \in {j \in 1..Len(pending) : Same(pending[j])}}
             rest == SelectSeq(pending, LAMBDA e : ~Same(e))
         IN  <<[chat_id |-> first.chat_id, event_type |-> first.event_type,
                ids |-> group]>> \o GroupEvents(rest)

\* for ... in groups.items(): if not self._can_send(chat_id): continue
RECURSIVE SkipFullChats(_, _)
SkipFullChats(groups, counts) ==
    IF groups = <<>> THEN <<>>
    ELSE IF ~CanSend(counts, Head(groups).chat_id) THEN SkipFullChats(Tail(groups), counts)
    ELSE groups

\* The loop of check_dates up to its next await: a job waiting in
\* bot.send_message for the first group it may send, or a finished job.
CheckDatesAwait(groups, counts, h, today) ==
    LET left == SkipFullChats(groups, counts)
    IN  IF left = <<>> THEN JobIdle("done", h)
        ELSE [pc |-> "send", outcome |-> "none", hour |-> h, today |-> today,
              groups |-> left]

CheckDatesStart ==
    LET pending == SelectSeq(GetEventsForDateResult(events, StrftimeMmdd(LocalDay)),
                             LAMBDA e : ~TriggeredToday(e, LocalDay))
    IN  /\ jobs["check_dates"].pc = "idle"
        /\ jobs' = [jobs EXCEPT !["check_dates"] =
                      IF IsNightTime(LocalHour) THEN JobIdle("night", LocalHour)
                      ELSE CheckDatesAwait(GroupEvents(pending), daily_counts,
                                           LocalHour, LocalDay)]
        /\ UNCHANGED <<handlerVars, migrationVars, agentVars, sessionVars, facts, nextId, memberships, profiles, now, events, nextEventId, hour,
                       config, daily_counts, journal, call, ret>>

\* bot.send_message has returned: the message is out, the chat's count goes
\* up, the events of the group are marked and the loop goes on.
CheckDatesSent ==
    LET job == jobs["check_dates"]
        group == Head(job.groups)
        counts == RecordSent(daily_counts, group.chat_id)
    IN  /\ job.pc = "send"
        /\ Len(journal) < MaxJournal
        /\ journal' = Append(journal, [job |-> "check_dates", chat_id |-> group.chat_id,
                                       events |-> group.ids, hour |-> job.hour,
                                       day |-> LocalDay])
        /\ daily_counts' = counts
        /\ events' = {IF e.id \in group.ids THEN [e EXCEPT !.last_triggered = now]
                      ELSE e : e \in events}
        /\ jobs' = [jobs EXCEPT !["check_dates"] =
                      CheckDatesAwait(Tail(job.groups), counts, job.hour, job.today)]
        /\ UNCHANGED <<handlerVars, migrationVars, agentVars, sessionVars, facts, nextId, memberships, profiles, now, nextEventId, hour, config,
                       call, ret>>

\* run_engagement and break_silence up to their await: the night test, the
\* limit test, then the random gate, the empty history or the empty message
\* (input), or a message to send.
ChatJobBegins(name, chat_id) ==
    /\ jobs[name].pc = "idle"
    /\ \E outcome \in {"gate", "empty", "send"} :
          jobs' = [jobs EXCEPT ![name] =
                     IF IsNightTime(LocalHour) THEN JobIdle("night", LocalHour)
                     ELSE IF ~CanSend(daily_counts, chat_id) THEN JobIdle("limit", LocalHour)
                     ELSE IF outcome = "send"
                          THEN [pc |-> "send", outcome |-> "none", hour |-> LocalHour,
                                chat_id |-> chat_id]
                          ELSE JobIdle(outcome, LocalHour)]

ChatJobStart(name, chat_id) ==
    /\ ChatJobBegins(name, chat_id)
    /\ UNCHANGED <<handlerVars, migrationVars, agentVars, sessionVars, facts, nextId, memberships, profiles, now, events, nextEventId, hour,
                   config, daily_counts, journal, call, ret>>

ChatJobSent(name) ==
    LET job == jobs[name]
    IN  /\ job.pc = "send"
        /\ Len(journal) < MaxJournal
        /\ journal' = Append(journal, [job |-> name, chat_id |-> job.chat_id,
                                       events |-> {}, hour |-> job.hour,
                                       day |-> LocalDay])
        /\ daily_counts' = RecordSent(daily_counts, job.chat_id)
        /\ jobs' = [jobs EXCEPT ![name] = JobIdle("sent", job.hour)]
        /\ UNCHANGED <<handlerVars, migrationVars, agentVars, sessionVars, facts, nextId, memberships, profiles, now, events, nextEventId, hour,
                       config, call, ret>>

RunEngagementStart(chat_id) == ChatJobStart("run_engagement", chat_id)
RunEngagementSent == ChatJobSent("run_engagement")
BreakSilenceStart(chat_id) == ChatJobStart("break_silence", chat_id)
BreakSilenceSent == ChatJobSent("break_silence")

\* bot.send_message raises: the callback ends there.
SendFails(name) ==
    /\ jobs[name].pc = "send"
    /\ jobs' = [jobs EXCEPT ![name] = JobIdle("failed", jobs[name].hour)]
    /\ UNCHANGED <<handlerVars, migrationVars, agentVars, sessionVars, facts, nextId, memberships, profiles, now, events, nextEventId, hour,
                   config, daily_counts, journal, call, ret>>

ResetDailyCounts ==
    /\ Len(journal) < MaxJournal
    /\ daily_counts' = NoCounts
    /\ journal' = Append(journal, [job |-> "reset_daily_counts"])
    /\ UNCHANGED <<handlerVars, migrationVars, agentVars, sessionVars, facts, nextId, memberships, profiles, now, events, nextEventId, hour,
                   config, jobs, call, ret>>

\* n hours pass, n <= 24, while no callback waits for bot.send_message (a
\* send takes seconds).
HoursPass(n) ==
    /\ \A name \in JobNames : jobs[name].pc = "idle"
    /\ hour + n >= HoursPerDay => now < MaxTime
    /\ hour' = (hour + n) % HoursPerDay
    /\ now' = IF hour + n >= HoursPerDay THEN now + 1 ELSE now
    /\ UNCHANGED <<handlerVars, migrationVars, agentVars, sessionVars, facts, nextId, memberships, profiles, events, nextEventId, config,
                   daily_counts, jobs, journal, call, ret>>

(***************************************************************************)
(* The session manager                                                     *)
(***************************************************************************)
SessionChats == {100, 200}

\* An append that drops the newest entry of a full deque instead.
DequeAppendDropNewest(d, x) ==
    IF max_messages = 0 THEN <<>>
    ELSE IF Len(d) >= max_messages THEN SubSeq(d, 1, Len(d) - 1) \o <<x>>
    ELSE d \o <<x>>

\* deque(maxlen=max_messages).append: a full deque drops its oldest entry
DequeAppend(d, x) ==
    IF max_messages = 0 THEN <<>>
    ELSE IF Len(d) >= max_messages THEN Tail(d) \o <<x>>
    ELSE d \o <<x>>

\* What add_message does to the history of the chat.
AddToSession(all, chat_id, role, text, author) ==
    [all EXCEPT ![chat_id] = DequeAppend(@, [role |-> role, text |-> text, author |-> author])]

AddMessage(chat_id, role, text, author) ==
    /\ call = Idle
    /\ sessions' = AddToSession(sessions, chat_id, role, text, author)
    /\ call' = [op |-> "add_message", chat_id |-> chat_id, role |-> role,
                text |-> text, author |-> author]
    /\ ret' = NoRet
    /\ UNCHANGED <<handlerVars, migrationVars, agentVars, facts, nextId, memberships, profiles, now, events, nextEventId,
                   schedulerVars, summarized_count>>

\* list(self._sessions[chat_id]), [] for a chat without a session
GetHistoryResult(all, chat_id) == all[chat_id]

\* history[offset:]
GetUnsummarizedResult(all, counts, chat_id) ==
    LET history == GetHistoryResult(all, chat_id)
        offset == counts[chat_id]
    IN  SubSeq(history, offset + 1, Len(history))

SessionRead(c, r) ==
    /\ call = Idle
    /\ call' = c
    /\ ret' = r
    /\ UNCHANGED <<handlerVars, migrationVars, agentVars, facts, nextId, memberships, profiles, now, events, nextEventId,
                   schedulerVars, sessionVars>>

GetHistory(chat_id) ==
    SessionRead([op |-> "get_history", chat_id |-> chat_id],
                [t |-> "history", v |-> GetHistoryResult(sessions, chat_id)])

GetUnsummarized(chat_id) ==
    SessionRead([op |-> "get_unsummarized", chat_id |-> chat_id],
                [t |-> "history",
                 v |-> GetUnsummarizedResult(sessions, summarized_count, chat_id)])

\* len(self.get_unsummarized(chat_id)) >= threshold
NeedsSummaryResult(all, counts, chat_id, threshold) ==
    Len(GetUnsummarizedResult(all, counts, chat_id)) >= threshold

NeedsSummary(chat_id, threshold) ==
    SessionRead([op |-> "needs_summary", chat_id |-> chat_id, threshold |-> threshold],
                [t |-> "bool",
                 v |-> NeedsSummaryResult(sessions, summarized_count, chat_id, threshold)])

MarkSummarized(chat_id, count) ==
    /\ call = Idle
    /\ summarized_count' = [summarized_count EXCEPT ![chat_id] = @ + count]
    /\ call' = [op |-> "mark_summarized", chat_id |-> chat_id, count |-> count]
    /\ ret' = NoRet
    /\ UNCHANGED <<handlerVars, migrationVars, agentVars, facts, nextId, memberships, profiles, now, events, nextEventId,
                   schedulerVars, sessions>>

(***************************************************************************)
(* The memory_save tool and the store behind it                            *)
(***************************************************************************)
\* duplicate_threshold, default 0.85
duplicate_threshold == (One \div 100) * 85

\* A store that takes a similarity of 0.80 for a duplicate already
SimilarMemoriesFromEighty(rows, embedding) ==
    {i \in 1 .. Len(rows) :
        LET sim == CosineSimilarity(rows[i].embedding, embedding)
        IN  sim # UNDEFINED /\ sim >= (One \div 100) * 80}

\* The stored memories whose similarity to the embedding is above the threshold
SimilarMemories(rows, embedding) ==
    {i \in 1 .. Len(rows) :
        LET sim == CosineSimilarity(rows[i].embedding, embedding)
        IN  sim # UNDEFINED /\ sim > duplicate_threshold}

\* The best matches: no other match is more similar
BestMatches(rows, embedding) ==
    LET similar == SimilarMemories(rows, embedding)
    IN  {i \in similar :
            \A j \in similar :
               CosineSimilarity(rows[j].embedding, embedding)
                  <= CosineSimilarity(rows[i].embedding, embedding)}

\* BotMemory.save_or_update: the best match is updated in place (whether its
\* stored embedding is replaced as well is left open), or a row is inserted.
SaveOrUpdate(content, embedding, importance) ==
    /\ call = Idle
    /\ LET best == BestMatches(memories, embedding)
       IN  IF best # {}
           THEN /\ \E i \in best :
                    \E e \in {memories[i].embedding, embedding} :
                      memories' = [memories EXCEPT ![i] =
                                      [@ EXCEPT !.content = content,
                                                !.embedding = e,
                                                !.importance = importance]]
                /\ ret' = [t |-> "outcome", v |-> "updated"]
           ELSE /\ Len(memories) < MaxMemories
                /\ memories' = Append(memories,
                                      [id |-> Len(memories) + 1, content |-> content,
                                       embedding |-> embedding, importance |-> importance,
                                       is_active |-> 1])
                /\ ret' = [t |-> "outcome", v |-> "inserted"]
    /\ call' = [op |-> "save_or_update", content |-> content, embedding |-> embedding,
                importance |-> importance]
    /\ UNCHANGED <<handlerVars, migrationVars, facts, nextId, memberships, profiles, now, events, nextEventId,
                   schedulerVars, sessionVars, effects>>

\* The memory_save tool: embed the text, save, hand the outcome back;
\* embedding is what embed_fn returns for the text
MemorySave(memory_text, importance, embedding) ==
    SaveOrUpdate(memory_text, embedding, importance)

(***************************************************************************)
(* The migration that rebuilds scheduled_events with 'holiday' allowed     *)
(***************************************************************************)
NoTable == [exists |-> FALSE, check |-> {}, rows |-> {}, indexes |-> {}]

\* CHECK(event_type IN ...) of revision a1b2c3d4e5f6 and of c3d4e5f6a7b8
OldEventTypes == {"birthday", "anniversary", "custom"}
NewEventTypes == {"birthday", "anniversary", "holiday", "custom"}

ScheduledEventsIndexes ==
    {"idx_scheduled_events_event_date", "idx_scheduled_events_chat_id",
     "idx_scheduled_events_is_active"}

\* scheduled_events as revision a1b2c3d4e5f6 creates it; its rows are events
OldScheduledEvents ==
    [exists |-> TRUE, check |-> OldEventTypes, rows |-> {},
     indexes |-> ScheduledEventsIndexes]

\* scheduled_events once c3d4e5f6a7b8 has run
NewScheduledEvents ==
    [exists |-> TRUE, check |-> NewEventTypes, rows |-> {},
     indexes |-> ScheduledEventsIndexes]

MigrationSteps == {"begun", "created", "copied", "dropped", "renamed", "indexed"}

\* What the transaction of the migration goes back to: a database without events
EmptySnapshot ==
    [events |-> {}, nextEventId |-> 1,
     schema |-> [scheduled_events |-> OldScheduledEvents, scheduled_events_new |-> NoTable]]

\* A copy that leaves last_triggered out of the column list.
CopyRowWithoutLastTriggered(e) ==
    [id |-> e.id, user_id |-> e.user_id, chat_id |-> e.chat_id,
     event_type |-> e.event_type, event_date |-> e.event_date, title |-> e.title,
     source_fact_id |-> e.source_fact_id, last_triggered |-> NULL,
     is_active |-> e.is_active, created_at |-> e.created_at,
     updated_at |-> e.updated_at]

\* INSERT INTO scheduled_events_new (...) SELECT ... : the eleven columns of a row
CopyRow(e) ==
    [id |-> e.id, user_id |-> e.user_id, chat_id |-> e.chat_id,
     event_type |-> e.event_type, event_date |-> e.event_date, title |-> e.title,
     source_fact_id |-> e.source_fact_id, last_triggered |-> e.last_triggered,
     is_active |-> e.is_active, created_at |-> e.created_at,
     updated_at |-> e.updated_at]

\* The value AUTOINCREMENT gives the next row of a table holding these rows
NextAutoincrement(rows) ==
    IF rows = {} THEN 1
    ELSE 1 + (CHOOSE i \in {r.id : r \in rows} : \A r \in rows : r.id <= i)

\* One statement of upgrade() has run without an error.
MigrationStep(from, to) ==
    /\ migration.pc = from
    /\ migration' = [migration EXCEPT !.pc = to]
    /\ UNCHANGED <<handlerVars, facts, nextId, memberships, profiles, now, schedulerVars,
                   sessionVars, agentVars, call, ret>>

\* The transaction of the migration is rolled back and the error raised again.
Rollback ==
    /\ events' = migration.saved.events
    /\ nextEventId' = migration.saved.nextEventId
    /\ schema' = migration.saved.schema
    /\ migration' = [migration EXCEPT !.pc = "failed"]
    /\ UNCHANGED <<handlerVars, facts, nextId, memberships, profiles, now, schedulerVars,
                   sessionVars, agentVars, call, ret>>

\* The migration starts in an exclusive transaction: no call is under way.
MigrationBegin ==
    /\ call = Idle
    /\ migration.pc \in {"idle", "failed"}
    /\ migration' = [pc |-> "begun",
                     saved |-> [events |-> events, nextEventId |-> nextEventId,
                                schema |-> schema]]
    /\ UNCHANGED <<handlerVars, facts, nextId, memberships, profiles, now, events, nextEventId,
                   schedulerVars, sessionVars, agentVars, schema, call, ret>>

\* CREATE TABLE scheduled_events_new (...): an error if the table exists
CreateNewTable ==
    /\ migration.pc = "begun"
    /\ IF schema.scheduled_events_new.exists
       THEN Rollback
       ELSE /\ schema' = [schema EXCEPT !.scheduled_events_new =
                             [exists |-> TRUE, check |-> NewEventTypes, rows |-> {},
                              indexes |-> {}]]
            /\ MigrationStep("begun", "created")
            /\ UNCHANGED <<events, nextEventId>>

\* INSERT INTO scheduled_events_new ... SELECT ... FROM scheduled_events:
\* an error if a row breaks the CHECK of the new table
CopyRows ==
    /\ migration.pc = "created"
    /\ LET copied == {CopyRow(e) : e \in events}
       IN  IF \E r \in copied : r.event_type \notin schema.scheduled_events_new.check
           THEN Rollback
           ELSE /\ schema' = [schema EXCEPT !.scheduled_events_new.rows = copied]
                /\ MigrationStep("created", "copied")
                /\ UNCHANGED <<events, nextEventId>>

\* DROP TABLE scheduled_events: the table goes with its rows and indexes
DropOldTable ==
    /\ events' = {}
    /\ nextEventId' = 1
    /\ schema' = [schema EXCEPT !.scheduled_events = NoTable]
    /\ MigrationStep("copied", "dropped")

\* ALTER TABLE scheduled_events_new RENAME TO scheduled_events
RenameNewTable ==
    /\ events' = schema.scheduled_events_new.rows
    /\ nextEventId' = NextAutoincrement(schema.scheduled_events_new.rows)
    /\ schema' = [scheduled_events |-> [schema.scheduled_events_new EXCEPT !.rows = {}],
                  scheduled_events_new |-> NoTable]
    /\ MigrationStep("dropped", "renamed")

\* The three CREATE INDEX IF NOT EXISTS ... ON scheduled_events(...)
CreateIndex(name) ==
    /\ name \notin schema.scheduled_events.indexes
    /\ schema' = [schema EXCEPT !.scheduled_events.indexes = @ \cup {name}]
    /\ MigrationStep("renamed",
                     IF schema'.scheduled_events.indexes = ScheduledEventsIndexes
                     THEN "indexed" ELSE "renamed")
    /\ UNCHANGED <<events, nextEventId>>

\* upgrade() has returned: the transaction is committed.
MigrationCommit ==
    /\ MigrationStep("indexed", "done")
    /\ UNCHANGED <<events, nextEventId, schema>>

\* A statement of upgrade() fails (the storage is unavailable, say).
MigrationFails ==
    /\ migration.pc \in MigrationSteps
    /\ Rollback

(***************************************************************************)
(* handle_message: one turn of the conversation                            *)
(***************************************************************************)
SorryText == "Sorry, something went wrong. Try again."
BotUsername == "bot"

\* f"{user.first_name or 'Unknown'} [ID: {user.id}]"
Author(first_name, user_id) == <<first_name, user_id>>

\* _format_fact_for_prompt: the tag of the scope, the owner of a user fact, the text
FormatFactForPrompt(fact) ==
    IF fact.scope = "chat" THEN <<"[chat fact]", fact.fact_text>>
    ELSE IF fact.user_id # NULL THEN <<"[user fact]", fact.user_id, fact.fact_text>>
    ELSE <<"[user fact]", fact.fact_text>>

\* retrieved_profiles=None: the list of retrieved facts is never empty
NoProfiles == <<>>

\* What the handler hands to gemini_client.ask
AskEffect(chat_id, history, question, user_profile, retrieved_profiles) ==
    [kind |-> "ask", chat_id |-> chat_id, history |-> history, question |-> question,
     user_profile |-> user_profile, retrieved_profiles |-> retrieved_profiles]

\* Only the best of the retrieved facts is marked.
UsedIdsFirstOnly(fact_results) ==
    IF fact_results = <<>> THEN <<>> ELSE <<fact_results[1].fact_id>>

\* [fact["fact_id"] for fact in fact_results]
UsedIds(fact_results) ==
    [i \in 1 .. Len(fact_results) |-> fact_results[i].fact_id]

\* user_memory.mark_facts_used(fact_ids)
MarkEffect(chat_id, fact_ids) ==
    [kind |-> "mark_facts_used", chat_id |-> chat_id, fact_ids |-> fact_ids]

\* update.message.reply_text(text)
ReplyEffect(chat_id, text) == [kind |-> "reply", chat_id |-> chat_id, text |-> text]

\* except Exception: the apology is the only thing sent
FailedTurn(chat_id, history, question, user_profile, response) ==
    <<ReplyEffect(chat_id, SorryText)>>

\* One message of a user in an allowed chat. embedding is what embed_text
\* returns, or "fails" when it raises; search_fails, ask_fails: the fact
\* search, the LLM raises; response: the answer of the LLM, which does not
\* ask for the profile to be saved. The count of messages stays below
\* MEMORY_UPDATE_INTERVAL, the answer below 4096 characters.
HandleMessage(chat_id, user_id, username, first_name, text, addressed, embedding, search_fails, ask_fails, response) ==
    LET author == Author(first_name, user_id)
        withQuestion == AddToSession(sessions, chat_id, "user", text, author)
        counted == UpsertProfileRow(profiles, user_id, username, author)
        members == memberships \cup {<<user_id, chat_id>>}
        history == GetHistoryResult(withQuestion, chat_id)
        user_facts == GetUserFactsResult(facts, user_id, 8)
        user_profile == IF user_facts # <<>> THEN user_facts
                        ELSE GetProfileResult(counted, user_id)
        fact_results ==
            IF embedding = "fails" THEN <<>>
            ELSE SearchFactsResult(facts, members, now, embedding, chat_id, user_id,
                                   3, One \div 5, 900)
        retrieved_profiles ==
            IF fact_results = <<>> THEN NoProfiles
            ELSE [i \in 1 .. Len(fact_results) |-> FormatFactForPrompt(fact_results[i])]
        fact_ids == UsedIds(fact_results)
        used == SeqRange(fact_ids)
        raised == embedding = "fails" \/ search_fails \/ ask_fails
    IN  /\ call = Idle
        /\ \A r \in profiles : r.user_id = user_id => r.msg_count < MaxMessages
        /\ \A f \in facts : f.id \in used => f.use_count < MaxUse
        /\ profiles' = counted
        /\ memberships' = members
        /\ call' = [op |-> "handle_message", chat_id |-> chat_id, user_id |-> user_id,
                    text |-> text, addressed |-> addressed,
                    embedding |-> embedding,
                    embed_fails |-> (embedding = "fails"), search_fails |-> search_fails,
                    ask_fails |-> ask_fails, response |-> response]
        /\ ret' = NoRet
        /\ IF ~addressed
           THEN /\ sessions' = withQuestion
                /\ effects' = <<>>
                /\ facts' = facts
           ELSE IF raised
           THEN /\ sessions' = withQuestion
                /\ effects' = FailedTurn(chat_id, history, text, user_profile, response)
                /\ facts' = facts
           ELSE /\ sessions' = AddToSession(withQuestion, chat_id, "model", response,
                                            BotUsername)
                /\ effects' = <<AskEffect(chat_id, history, text, user_profile,
                                          retrieved_profiles)>>
                               \o (IF fact_results = <<>> THEN <<>>
                                   ELSE <<MarkEffect(chat_id, fact_ids)>>)
                               \o <<ReplyEffect(chat_id, response)>>
                /\ facts' = {IF f.id \in used
                             THEN [f EXCEPT !.use_count = @ + 1, !.last_used_at = now]
                             ELSE f : f \in facts}
        /\ UNCHANGED <<handlerVars, nextId, now, events, nextEventId, schedulerVars,
                       summarized_count, memories, migrationVars>>

(***************************************************************************)
(* _update_user_profile (handlers.py): the background fact extraction      *)
(***************************************************************************)
\* min_semantic of find_similar_facts, default 0.35
DefaultMinSemantic == (One \div 100) * 35

\* find_similar_facts as the handler calls it for a candidate of that scope
SimilarToCandidate(rows, x, user_id, chat_id) ==
    IF x.scope = "chat"
    THEN FindSimilarFactsResult(rows, "chat", x.embedding, NULL, chat_id, 3,
                                DefaultMinSemantic)
    ELSE FindSimilarFactsResult(rows, "user", x.embedding, user_id, NULL, 3,
                                DefaultMinSemantic)

\* scoped_fact: the candidate with its embedding and, when similar facts
\* exist, with what decide_fact_action answers
ScopedFact(rows, x, user_id, chat_id) ==
    LET decided == SimilarToCandidate(rows, x, user_id, chat_id) # <<>>
    IN  [fact |-> x.fact, importance |-> x.importance, confidence |-> x.confidence,
         embedding |-> x.embedding,
         action |-> IF decided THEN x.decision.action ELSE AbsentAction,
         target_fact_id |-> IF decided THEN x.decision.target_fact_id ELSE NoTarget]

\* user_facts or chat_facts: the candidates of the scope that have a text
ScopedFacts(rows, extracted, chat_scope, user_id, chat_id) ==
    LET kept == SelectSeq(extracted,
                          LAMBDA x : Strip(x.fact) # <<>> /\ (x.scope = "chat") = chat_scope)
    IN  [i \in 1 .. Len(kept) |-> ScopedFact(rows, kept[i], user_id, chat_id)]

\* extracted: what extract_facts returns, each candidate with the embedding
\* embed_text gives its text and the decision decide_fact_action would take.
\* An upsert that raises is rolled back and ends the update (except Exception).
UpdateUserProfile(user_id, chat_id, extracted) ==
    LET user_facts == ScopedFacts(facts, extracted, FALSE, user_id, chat_id)
        chat_facts == ScopedFacts(facts, extracted, TRUE, user_id, chat_id)
        before == [rows |-> facts, next |-> nextId, raised |-> FALSE]
        byUser == UpsertLoop(before, "user", user_id, chat_id, user_facts, now)
        afterUser == IF byUser.raised THEN before ELSE byUser
        byChat == IF byUser.raised THEN before
                  ELSE UpsertLoop(afterUser, "chat", NULL, chat_id, chat_facts, now)
        after == IF byChat.raised THEN afterUser ELSE byChat
    IN  /\ call = Idle
        /\ WithinCapacity(byUser)
        /\ WithinCapacity(byChat)
        /\ facts' = after.rows
        /\ nextId' = after.next
        /\ call' = [op |-> "_update_user_profile", user_id |-> user_id,
                    chat_id |-> chat_id, extracted |-> extracted]
        /\ ret' = NoRet
        /\ UNCHANGED <<memberships, profiles, now, events, nextEventId, schedulerVars,
                       sessionVars, agentVars, migrationVars, handlerVars>>

(***************************************************************************)
(* The /memory UI (memory_handlers.py) and the dispatcher of main.py       *)
(***************************************************************************)
FACTS_PER_PAGE == 5

\* No entry under a key of _pending_edits
NoEdit == <<>>

\* An inline button: callback_data f"mem:{action}:{arg}:{target_user_id}"
Button(action, arg, target_user_id) ==
    [action |-> action, arg |-> arg, target |-> target_user_id]

\* A message of the bot that carries an inline keyboard
KeyboardEffect(chat_id, text, buttons) ==
    [kind |-> "keyboard", chat_id |-> chat_id, text |-> text, buttons |-> buttons]

\* max(1, math.ceil(total / FACTS_PER_PAGE))
TotalPages(total) == Max(1, (total + FACTS_PER_PAGE - 1) \div FACTS_PER_PAGE)

\* _build_list_keyboard: one button per fact, then the navigation row
BuildListKeyboard(page_facts, page, total, target_user_id) ==
    {Button("view", page_facts[i].id, target_user_id) : i \in 1 .. Len(page_facts)}
      \cup (IF page > 0 THEN {Button("list", page - 1, target_user_id)} ELSE {})
      \cup (IF page < TotalPages(total) - 1
            THEN {Button("list", page + 1, target_user_id)} ELSE {})

\* _resolve_target_user: int(args[0]) in a private chat, else the sender
ResolveTargetUser(sender_id, is_private, args) ==
    IF is_private /\ args # <<>> /\ args[1].t = "num" THEN args[1].v ELSE sender_id

\* The list of a page as the bot shows it: header and keyboard, or the
\* remark that nothing is stored
ListMessage(rows, chat_id, status, page, target_user_id) ==
    LET got == GetUserFactsPageResult(rows, target_user_id, page, FACTS_PER_PAGE)
    IN  IF got.facts = <<>>
        THEN <<ReplyEffect(chat_id, <<status, "No memories stored yet.">>)>>
        ELSE <<KeyboardEffect(chat_id, <<status, "Memories", page + 1,
                                         TotalPages(got.total), got.total>>,
                              BuildListKeyboard(got.facts, page, got.total,
                                                target_user_id))>>

\* handle_memory_command: /memory, with its arguments, in a chat of chat_type
HandleMemoryCommand(chat_id, sender_id, chat_type, args) ==
    LET target_user_id == ResolveTargetUser(sender_id, chat_type = "private", args)
    IN  /\ call = Idle
        /\ effects' = IF chat_type # "private"
                      THEN <<ReplyEffect(chat_id, <<"", "For your privacy">>)>>
                      ELSE ListMessage(facts, chat_id, "", 0, target_user_id)
        /\ call' = [op |-> "handle_memory_command", chat_id |-> chat_id,
                    user_id |-> sender_id, chat_type |-> chat_type, args |-> args]
        /\ ret' = NoRet
        /\ UNCHANGED <<facts, nextId, memberships, profiles, now, events, nextEventId,
                       schedulerVars, sessionVars, memories, migrationVars, handlerVars>>

\* _cb_list: the page, or the page before it when the page has become empty
CbList(rows, chat_id, page, target_user_id) ==
    LET got == GetUserFactsPageResult(rows, target_user_id, page, FACTS_PER_PAGE)
        shown == IF got.facts = <<>> /\ page > 0 THEN Max(0, page - 1) ELSE page
    IN  ListMessage(rows, chat_id, "", shown, target_user_id)

RowOfFact(rows, fact_id) == CHOOSE f \in rows : f.id = fact_id

\* _cb_view: the text of the fact with Edit, Delete and Back
CbView(rows, chat_id, fact_id, target_user_id) ==
    IF \E f \in ActiveUserFacts(rows, target_user_id) : f.id = fact_id
    THEN <<KeyboardEffect(chat_id, <<"Fact", fact_id, RowOfFact(rows, fact_id).fact_text>>,
                          {Button("edit", fact_id, target_user_id),
                           Button("del", fact_id, target_user_id),
                           Button("back", 0, target_user_id)})>>
    ELSE <<ReplyEffect(chat_id, <<"", "Fact not found">>)>>

\* delete_fact(fact_id=fact_id, user_id=target_user_id)
DeletedRows(rows, fact_id, target_user_id) ==
    {f \in rows : ~OwnedUserFact(f, fact_id, target_user_id)}

\* _cb_delete: the delete, then the list at page 0 under the status line
CbDelete(rows, chat_id, fact_id, target_user_id) ==
    LET left == DeletedRows(rows, fact_id, target_user_id)
        status == IF left # rows THEN "Deleted." ELSE "Fact not found."
    IN  ListMessage(left, chat_id, status, 0, target_user_id)

\* _cb_edit: the prompt for the new text, with Cancel
CbEdit(chat_id, fact_id, target_user_id) ==
    <<KeyboardEffect(chat_id, <<"Editing", fact_id>>,
                     {Button("view", fact_id, target_user_id)})>>

\* The button is one of a message the bot has sent to the chat
Shown(chat_id, button) ==
    \E i \in 1 .. Len(effects) :
       /\ effects[i].kind = "keyboard"
       /\ effects[i].chat_id = chat_id
       /\ button \in effects[i].buttons

\* A handler that leaves the pending edit of the presser in place.
PendingAfterButtonKept(key, button) ==
    IF button.action = "edit"
    THEN [pending_edits EXCEPT ![key] = <<button.arg, button.target>>]
    ELSE pending_edits

\* _pending_edits.pop(key, None), then _cb_edit stores its own entry
PendingAfterButton(key, button) ==
    IF button.action = "edit"
    THEN [pending_edits EXCEPT ![key] = <<button.arg, button.target>>]
    ELSE [pending_edits EXCEPT ![key] = NoEdit]

\* handle_memory_callback: from_user presses a button of a message in the chat
HandleMemoryCallback(chat_id, from_user, button) ==
    LET key == <<chat_id, from_user>>
        action == button.action
    IN  /\ call = Idle
        /\ Shown(chat_id, button)
        /\ pending_edits' = PendingAfterButton(key, button)
        /\ facts' = IF action = "del"
                    THEN DeletedRows(facts, button.arg, button.target)
                    ELSE facts
        /\ effects' =
             CASE action \in {"list", "back"} ->
                    CbList(facts, chat_id, button.arg, button.target)
               [] action = "view" -> CbView(facts, chat_id, button.arg, button.target)
               [] action = "del" -> CbDelete(facts, chat_id, button.arg, button.target)
               [] action = "edit" -> CbEdit(chat_id, button.arg, button.target)
        /\ call' = [op |-> "handle_memory_callback", chat_id |-> chat_id,
                    user_id |-> from_user, button |-> button]
        /\ ret' = NoRet
        /\ UNCHANGED <<nextId, memberships, profiles, now, events, nextEventId,
                       schedulerVars, sessionVars, memories, migrationVars, graph,
                       job_queue>>

\* handle_memory_edit_reply when the sender has a pending edit in the chat:
\* the entry is popped, then the stripped text replaces the text of the fact
HandleMemoryEditReply(chat_id, user_id, text) ==
    LET key == <<chat_id, user_id>>
        fact_id == pending_edits[key][1]
        target_user_id == pending_edits[key][2]
        new_text == Strip(text)
        hit == {f \in facts : OwnedUserFact(f, fact_id, target_user_id)}
        Edit(f) == [f EXCEPT !.fact_text = new_text, !.embedding = NullEmb,
                             !.updated_at = now]
    IN  /\ call = Idle
        /\ pending_edits[key] # NoEdit
        /\ pending_edits' = [pending_edits EXCEPT ![key] = NoEdit]
        /\ facts' = IF new_text = <<>> THEN facts
                    ELSE {IF f \in hit THEN Edit(f) ELSE f : f \in facts}
        /\ effects' = <<ReplyEffect(chat_id,
                          IF new_text = <<>> THEN <<"", "Empty text">>
                          ELSE IF hit # {} THEN <<"", "Fact updated">>
                          ELSE <<"", "Fact not found">>)>>
        /\ call' = [op |-> "handle_memory_edit_reply", chat_id |-> chat_id,
                    user_id |-> user_id, text |-> text,
                    fact_id |-> fact_id, target |-> target_user_id]
        /\ ret' = [t |-> "bool", v |-> TRUE]
        /\ UNCHANGED <<nextId, memberships, profiles, now, events, nextEventId,
                       schedulerVars, sessionVars, memories, migrationVars, graph,
                       job_queue>>

\* _message_dispatcher: the edit reply first; handle_message when it
\* returned False, which it does when the sender has no pending edit
MessageDispatcher(chat_id, user_id, username, first_name, text, addressed, embedding, search_fails, ask_fails, response) ==
    IF pending_edits[<<chat_id, user_id>>] # NoEdit
    THEN HandleMemoryEditReply(chat_id, user_id, text)
    ELSE HandleMessage(chat_id, user_id, username, first_name, text, addressed,
                       embedding, search_fails, ask_fails, response)

(***************************************************************************)
(* The silence timer (scheduler.py) and the JobQueue that runs it          *)
(***************************************************************************)
\* The proactive features are switched on
PROACTIVE_ENABLED == TRUE

\* f"silence_{chat_id}"
SilenceJobName(chat_id) == <<"silence", chat_id>>

\* job.schedule_removal() for every job of that name, then run_once
PendingAfterReset(queue, chat_id) ==
    Append(SelectSeq(queue, LAMBDA j : j.name # SilenceJobName(chat_id)),
           [name |-> SilenceJobName(chat_id), data |-> chat_id])

\* reset_silence_timer(job_queue, chat_id); the delay of the new job, 7 to
\* 10 minutes, is the time after which the queue may run it
ResetSilenceTimer(chat_id) ==
    /\ call = Idle
    /\ job_queue' = IF ~PROACTIVE_ENABLED THEN job_queue
                    ELSE PendingAfterReset(job_queue, chat_id)
    /\ call' = [op |-> "reset_silence_timer", chat_id |-> chat_id]
    /\ ret' = NoRet
    /\ UNCHANGED <<facts, nextId, memberships, profiles, now, events, nextEventId,
                   schedulerVars, sessionVars, agentVars, migrationVars, graph,
                   pending_edits>>

\* The queue runs a pending silence job: a run_once job leaves the queue,
\* silence_callback hands job.data to break_silence
SilenceCallback(chat_id) ==
    /\ \E i \in 1 .. Len(job_queue) :
          /\ job_queue[i].data = chat_id
          /\ job_queue' = SubSeq(job_queue, 1, i - 1)
                            \o SubSeq(job_queue, i + 1, Len(job_queue))
    /\ ChatJobBegins("break_silence", chat_id)
    /\ UNCHANGED <<graph, pending_edits, migrationVars, agentVars, sessionVars, facts,
                   nextId, memberships, profiles, now, events, nextEventId, hour,
                   config, daily_counts, journal, call, ret>>

(***************************************************************************)
(* The agent graph (graph.py): agent -> tools -> agent                     *)
(***************************************************************************)
MAX_AGENT_STEPS == 6

\* The supersteps after which the compiled graph gives up with
\* GraphRecursionError (the recursion limit of the graph runtime)
recursion_limit == 16

END == "__end__"

\* No invocation so far
NoRun == [node |-> END, messages |-> <<>>, agent_steps |-> 0, steps |-> 0]

\* _route_after_agent
RouteAfterAgent(state_messages) ==
    LET last == state_messages[Len(state_messages)]
    IN  IF last.tool_calls # <<>> THEN "tools" ELSE END

\* graph.invoke(state): the run starts at the entry point
GraphInvoke(question) ==
    /\ graph.node \in {END, "raised"}
    /\ graph' = [node |-> "agent",
                 messages |-> <<[type |-> "human", content |-> question,
                                 tool_calls |-> <<>>]>>,
                 agent_steps |-> 0, steps |-> 0]
    /\ UNCHANGED <<facts, nextId, memberships, profiles, now, events, nextEventId,
                   schedulerVars, sessionVars, agentVars, migrationVars, job_queue,
                   pending_edits, call, ret>>

\* agent_node, then the conditional edge; tool_calls: the tools the answer of
\* the LLM asks for
AgentNode(tool_calls) ==
    LET answered == Append(graph.messages,
                           [type |-> "ai", content |-> "", tool_calls |-> tool_calls])
    IN  /\ graph.node = "agent"
        /\ graph.steps < recursion_limit
        /\ graph' = [node |-> RouteAfterAgent(answered),
                     messages |-> answered,
                     agent_steps |-> graph.agent_steps + 1,
                     steps |-> graph.steps + 1]
        /\ UNCHANGED <<facts, nextId, memberships, profiles, now, events, nextEventId,
                       schedulerVars, sessionVars, agentVars, migrationVars, job_queue,
                       pending_edits, call, ret>>

\* ToolNode: one ToolMessage per tool call of the last message, then the
\* edge back to the agent. memory_search finds nothing in an empty store and
\* web_search asks the LLM: neither changes the state of the bot.
ToolsNode ==
    LET calls == graph.messages[Len(graph.messages)].tool_calls
        results == [i \in 1 .. Len(calls) |->
                       [type |-> "tool", content |-> calls[i], tool_calls |-> <<>>]]
    IN  /\ graph.node = "tools"
        /\ graph.steps < recursion_limit
        /\ memories = <<>>
        /\ \A i \in 1 .. Len(calls) : calls[i] \in {"memory_search", "web_search"}
        /\ graph' = [graph EXCEPT !.node = "agent",
                                  !.messages = @ \o results,
                                  !.steps = @ + 1]
        /\ UNCHANGED <<facts, nextId, memberships, profiles, now, events, nextEventId,
                       schedulerVars, sessionVars, agentVars, migrationVars, job_queue,
                       pending_edits, call, ret>>

\* The run has used up its supersteps without reaching END
GraphRecursionError ==
    /\ graph.node \in {"agent", "tools"}
    /\ graph.steps >= recursion_limit
    /\ graph' = [graph EXCEPT !.node = "raised"]
    /\ UNCHANGED <<facts, nextId, memberships, profiles, now, events, nextEventId,
                   schedulerVars, sessionVars, agentVars, migrationVars, job_queue,
                   pending_edits, call, ret>>

(***************************************************************************)
(* The environment: time passes, a call returns                            *)
(***************************************************************************)
Tick ==
    /\ call = Idle
    /\ now < MaxTime
    /\ now' = now + 1
    /\ UNCHANGED <<handlerVars, migrationVars, agentVars, sessionVars, schedulerVars, events, nextEventId, facts, nextId, memberships, profiles, call, ret>>

\* A long time passes without any call.
Sleep ==
    /\ call = Idle
    /\ now <= MaxTime
    /\ now' = now + LongGap
    /\ UNCHANGED <<handlerVars, migrationVars, agentVars, sessionVars, schedulerVars, events, nextEventId, facts, nextId, memberships, profiles, call, ret>>

Return ==
    /\ call # Idle
    /\ call' = Idle
    /\ ret' = NoRet
    /\ UNCHANGED <<handlerVars, migrationVars, agentVars, sessionVars, schedulerVars, events, nextEventId, facts, nextId, memberships, profiles, now>>

\* Empty tables, no call in progress
InitMemory ==
    /\ facts = {}
    /\ nextId = 1
    /\ memberships = {}
    /\ profiles = {}
    /\ now = 0
    /\ events = {}
    /\ nextEventId = 1
    /\ call = Idle
    /\ ret = NoRet

\* A new ProactiveScheduler configured with the settings in config
InitScheduler ==
    /\ daily_counts = NoCounts
    /\ jobs = [j \in JobNames |-> JobIdle("none", NULL)]
    /\ journal = <<>>

\* A new SessionManager
InitSession ==
    /\ sessions = [c \in SessionChats |-> <<>>]
    /\ summarized_count = [c \in SessionChats |-> 0]

\* A database on which every migration has run
InitSchema ==
    /\ schema = [scheduled_events |-> NewScheduledEvents, scheduled_events_new |-> NoTable]
    /\ migration = [pc |-> "done", saved |-> EmptySnapshot]

\* No invocation of the graph, no silence job, no pending edit
InitHandlers ==
    /\ graph = NoRun
    /\ job_queue = <<>>
    /\ pending_edits = [k \in Chats \X Users |-> NoEdit]

\* An empty memory store
InitStore == memories = <<>>

\* A handler that has not run
InitAgent ==
    /\ InitStore
    /\ effects = <<>>
    /\ InitHandlers

Init ==
    /\ InitMemory
    /\ InitScheduler
    /\ InitSession
    /\ InitAgent
    /\ InitSchema
    /\ hour = 9
    /\ config = [tz |-> KyivOffset, daily_limit |-> PROACTIVE_DAILY_LIMIT]

(***************************************************************************)
(* Inputs                                                                  *)
(***************************************************************************)
TextA == <<"a">>
TextB == <<"b">>
E1 == <<1, 0>>
E2 == <<3, 4>>
E3 == <<0, 1>>
EZero == <<0, 0>>

FactIds == 1..(MaxFacts + 1)

Item(fact, importance, confidence, embedding, action, target) ==
    [fact |-> fact, importance |-> importance, confidence |-> confidence,
     embedding |-> embedding, action |-> action, target_fact_id |-> target]

Targets == {IntTarget(i) : i \in FactIds} \cup {NoTarget, BadTarget}

High == Num(2 * One)
Low == Num(0 - One)

\* Candidates of the resolver runs: plain additions (one with padded text and
\* no embedding, one blank, one with an unknown action), update/deactivate
\* candidates for every kind of target id, and discarded candidates.
ResolverItems ==
    { Item(TextA, Absent, Absent, E1, AbsentAction, NoTarget),
      Item(TextB, High, Low, E2, "keep_add_new", NoTarget),
      Item(<<"a", " ">>, Absent, Absent, NullEmb, AbsentAction, NoTarget),
      Item(<<" ">>, Absent, Absent, E1, AbsentAction, NoTarget),
      Item(TextA, Absent, Absent, E1, "merge", IntTarget(1)),
      Item(<<" ">>, High, Low, E2, "deactivate_existing", IntTarget(1)),
      Item(TextB, High, Low, E2, "noop", IntTarget(1)),
      Item(TextB, High, Low, E2, " NOOP ", IntTarget(1)) }
    \cup {Item(TextB, High, Low, E2, a, t) :
            a \in {"update_existing", "deactivate_existing"}, t \in Targets}
    \cup {Item(TextA, Absent, Absent, NullEmb, "Update_Existing", IntTarget(i)) :
            i \in 1..MaxFacts}

\* (user_id, chat_id) of the upsert_user_facts calls, chat_id of the
\* upsert_chat_facts calls
ResolverUserCalls == {<<1, 100>>, <<1, 200>>, <<2, 100>>}
ResolverChatCalls == {100}

\* fact_ids of the mark_facts_used calls: empty, one id, a repeated id, an
\* id that names no row
ResolverIdLists == {<<>>, <<1>>, <<1, 1>>, <<MaxFacts + 1>>}

(***************************************************************************)
(* Spec: the resolver and the user-driven mutations over the fact table    *)
(***************************************************************************)
Next ==
    \/ \E uc \in ResolverUserCalls, item \in ResolverItems :
          UpsertUserFacts(uc[1], uc[2], <<item>>)
    \/ \E c \in ResolverChatCalls, item \in ResolverItems :
          UpsertChatFacts(c, <<item>>)
    \/ \E i \in FactIds, u \in Users : DeleteFact(i, u)
    \/ \E i \in FactIds, u \in Users, t \in {TextA, TextB} : UpdateFactText(i, u, t)
    \/ \E ids \in ResolverIdLists : MarkFactsUsed(ids)
    \/ \E u \in Users, limit \in {1, 30} : GetUserFacts(u, limit)
    \/ \E c \in Chats, limit \in {1, 30} : GetChatFacts(c, limit)
    \/ \E u \in Users, page \in 0..1 : GetUserFactsPage(u, page, 5)
    \/ \E u \in Users, q \in {E1, E2} :
          FindSimilarFacts("user", q, u, NULL, 3, (One \div 100) * 35)
    \/ \E c \in Chats, q \in {E1, E2} :
          FindSimilarFacts("chat", q, NULL, c, 3, (One \div 100) * 35)
    \/ \E u \in Users, c \in Chats, q \in {E1, E2} :
          SearchFactsByEmbedding(q, c, u, 3, One \div 5, 900)
    \/ Return

Spec == Init /\ [][Next]_vars

(***************************************************************************)
(* SpecVis: who sees which fact. Users join chats, facts are recorded for  *)
(* every user and chat, with or without an embedding, and deactivated;     *)
(* every user searches from every chat.                                    *)
(***************************************************************************)
VisItems ==
    { Item(TextA, Absent, Absent, E1, AbsentAction, NoTarget),
      Item(TextB, Absent, Absent, NullEmb, AbsentAction, NoTarget) }
    \cup {Item(TextA, Absent, Absent, E1, "deactivate_existing", IntTarget(i)) :
            i \in 1..MaxFacts}

\* username and first_name of the increment_message_count calls
UserName == "user"
FirstName == "Name"

\* (user_id, chat_id) of the increment_message_count calls
VisMembers == {<<1, 100>>, <<2, 100>>, <<2, 200>>}

NextVis ==
    \/ \E m \in VisMembers : IncrementMessageCount(m[1], m[2], UserName, FirstName)
    \/ \E u \in Users, c \in Chats, item \in VisItems :
          UpsertUserFacts(u, c, <<item>>)
    \/ \E c \in Chats, item \in VisItems : UpsertChatFacts(c, <<item>>)
    \/ \E u \in Users, c \in Chats :
          SearchFactsByEmbedding(E1, c, u, 3, One \div 5, 900)
    \/ Return

SpecVis == Init /\ [][NextVis]_vars

(***************************************************************************)
(* SpecRank: ranking and cooldown. Facts of two users and of the chat,     *)
(* with different embeddings and importances, age and are marked used;     *)
(* user 1 searches from chat 100 with different limits, floors and         *)
(* cooldowns.                                                              *)
(***************************************************************************)
TextC == <<"c">>

RankItems ==
    { Item(TextA, Absent, Absent, E1, AbsentAction, NoTarget),
      Item(TextB, High, Absent, E2, AbsentAction, NoTarget),
      Item(TextC, Low, Absent, E3, AbsentAction, NoTarget) }

RankUsers == {1, 2}
RankChat == 100
RankIdLists == {<<>>, <<1>>, <<2>>, <<1, 2>>, <<1, 1>>}
RankQueries == {E1, E2}
RankLimits == {1, 2}
RankFloors == {One \div 5, (One \div 10) * 7}
RankCooldowns == {900, SECONDS_PER_DAY}

NextRank ==
    \/ \E u \in RankUsers, item \in RankItems :
          UpsertUserFacts(u, RankChat, <<item>>)
    \/ \E item \in RankItems : UpsertChatFacts(RankChat, <<item>>)
    \/ \E ids \in RankIdLists : MarkFactsUsed(ids)
    \/ \E q \in RankQueries, limit \in RankLimits, floor \in RankFloors,
          cooldown \in RankCooldowns :
          SearchFactsByEmbedding(q, RankChat, 1, limit, floor, cooldown)
    \/ Tick
    \/ Return

SpecRank == Init /\ [][NextRank]_vars

(***************************************************************************)
(* SpecAge: the same fact text, with the same embedding, is recorded for   *)
(* user 1 and for chat 100, with the default or the highest importance,    *)
(* on different days; days or a long time later user 1 searches.           *)
(***************************************************************************)
AgeItems ==
    { Item(TextA, Absent, Absent, E1, AbsentAction, NoTarget),
      Item(TextA, High, Absent, E1, AbsentAction, NoTarget),
      Item(TextB, Absent, Absent, E2, AbsentAction, NoTarget) }

NextAge ==
    \/ \E item \in AgeItems : UpsertUserFacts(1, RankChat, <<item>>)
    \/ \E item \in AgeItems : UpsertChatFacts(RankChat, <<item>>)
    \/ \E limit \in RankLimits :
          SearchFactsByEmbedding(E1, RankChat, 1, limit, One \div 5, 900)
    \/ Tick
    \/ Sleep
    \/ Return

SpecAge == Init /\ [][NextAge]_vars

(***************************************************************************)
(* SpecBatch: lists of one or two candidates, among them discarded ones    *)
(* and one that is not a dict, for user 1 and for chat 100; the            *)
(* importance and confidence take every kind of value.                     *)
(***************************************************************************)
BatchItems ==
    { Item(TextA, Absent, Absent, E1, AbsentAction, NoTarget),
      Item(TextB, High, Low, E2, "keep_add_new", NoTarget),
      Item(TextA, PyNone, PyStr, E2, "keep_add_new", NoTarget),
      Item(TextB, Num(One \div 4), Num(One), E1, "update_existing", IntTarget(1)),
      Item(TextB, Low, High, NullEmb, "deactivate_existing", IntTarget(1)),
      Item(TextB, High, Low, E2, " NOOP ", IntTarget(1)),
      Item(<<" ">>, High, Low, E2, "update_existing", IntTarget(1)),
      NotADict }

Batches ==
    {<<x>> : x \in BatchItems} \cup {<<x, y>> : x \in BatchItems, y \in BatchItems}

NextBatch ==
    \/ \E items \in Batches : UpsertUserFacts(1, RankChat, items)
    \/ \E items \in Batches : UpsertChatFacts(RankChat, items)
    \/ \E page \in 0..MaxFacts, page_size \in 1..MaxFacts :
          GetUserFactsPage(1, page, page_size)
    \/ Return

SpecBatch == Init /\ [][NextBatch]_vars

(***************************************************************************)
(* SpecEmb: facts of user 1 and of chat 100 whose embedding is a vector of *)
(* the query's length, a longer vector, all zeros or missing; user 1       *)
(* rewrites fact texts, which clears the embedding; the facts are searched *)
(* with the usual floors and with a floor below every similarity, and      *)
(* listed.                                                                 *)
(***************************************************************************)
TextD == <<"d">>
ELong == <<1, 0, 0>>

EmbItems ==
    { Item(TextA, Absent, Absent, E1, AbsentAction, NoTarget),
      Item(TextB, Absent, Absent, ELong, AbsentAction, NoTarget),
      Item(TextC, Absent, Absent, EZero, AbsentAction, NoTarget),
      Item(TextC, Absent, Absent, NullEmb, AbsentAction, NoTarget) }

EmbFloors == {0 - One, One \div 5, (One \div 100) * 35}
EmbLimit == 3
ListLimit == 30

NextEmb ==
    \/ \E item \in EmbItems : UpsertUserFacts(1, RankChat, <<item>>)
    \/ \E item \in EmbItems : UpsertChatFacts(RankChat, <<item>>)
    \/ \E i \in 1..MaxFacts : UpdateFactText(i, 1, TextD)
    \/ \E floor \in EmbFloors :
          FindSimilarFacts("user", E1, 1, NULL, EmbLimit, floor)
    \/ \E floor \in EmbFloors :
          FindSimilarFacts("chat", E1, NULL, RankChat, EmbLimit, floor)
    \/ \E floor \in EmbFloors :
          SearchFactsByEmbedding(E1, RankChat, 1, EmbLimit, floor, 900)
    \/ GetUserFacts(1, ListLimit)
    \/ GetChatFacts(RankChat, ListLimit)
    \/ GetUserFactsPage(1, 0, ListLimit)
    \/ Return

SpecEmb == Init /\ [][NextEmb]_vars

(***************************************************************************)
(* SpecEvents: events of user 1 and events without a user are scheduled in *)
(* chat 100 under two titles, with a month-day or a full date, with or     *)
(* without a source fact, and rescheduled; the scheduler asks for the      *)
(* events of a day and marks events as triggered.                          *)
(***************************************************************************)
TitleA == "Alice's birthday"
TitleB == "Alice's birthday (corrected)"
Date0315 == <<"0", "3", "-", "1", "5">>
Date0420 == <<"0", "4", "-", "2", "0">>
Date20260315 == <<"2", "0", "2", "6", "-">> \o Date0315
SourceFactId == 7

EventUsers == {1, NULL}
EventTypes == {"birthday", "graduation"}
EventTitles == {TitleA, TitleB}
\* (event_date, source_fact_id) of the upsert_scheduled_event calls
EventDates == {<<Date0315, NULL>>, <<Date0420, SourceFactId>>, <<Date20260315, NULL>>}

NextEvents ==
    \/ \E u \in EventUsers, ty \in EventTypes, d \in EventDates, title \in EventTitles :
          UpsertScheduledEvent(u, RankChat, ty, d[1], title, d[2])
    \/ \E d \in {Date0315, Date0420} : GetEventsForDate(d)
    \/ \E i \in 1..2 : MarkEventTriggered(i)
    \/ Return

SpecEvents == Init /\ [][NextEvents]_vars

(***************************************************************************)
(* SpecDue: birthdays and anniversaries of user 1 are scheduled in two     *)
(* chats, in any order, with a month-day or a full date, and rescheduled;  *)
(* the scheduler asks for the events of a day.                             *)
(***************************************************************************)
DueChats == {100, 200}
DueTypes == {"birthday", "anniversary"}
DueDates == {Date0315, Date0420, Date20260315}

NextDue ==
    \/ \E c \in DueChats, ty \in DueTypes, d \in DueDates :
          UpsertScheduledEvent(1, c, ty, d, TitleA, NULL)
    \/ \E d \in {Date0315, Date0420} : GetEventsForDate(d)
    \/ Return

SpecDue == Init /\ [][NextDue]_vars

(***************************************************************************)
(* SpecDates: a birthday in chat 100 and a holiday in chat 200 fall on the *)
(* 15th of March; check_dates runs any number of times, every six hours    *)
(* from 01:00 UTC on, in Kyiv or in New York.                              *)
(***************************************************************************)
NewYorkOffset == 0 - 5
Timezones == {KyivOffset, NewYorkOffset}
QuarterDay == 6

DatesInit ==
    /\ InitMemory
    /\ InitScheduler
    /\ InitSession
    /\ InitAgent
    /\ InitSchema
    /\ hour = 1
    /\ config \in [tz : Timezones, daily_limit : {PROACTIVE_DAILY_LIMIT}]

NextDates ==
    \/ UpsertScheduledEvent(1, 100, "birthday", Date0315, TitleA, NULL)
    \/ UpsertScheduledEvent(NULL, 200, "holiday", Date20260315, TitleB, NULL)
    \/ CheckDatesStart
    \/ CheckDatesSent
    \/ SendFails("check_dates")
    \/ HoursPass(QuarterDay)
    \/ Return

SpecDates == DatesInit /\ [][NextDates]_vars

(***************************************************************************)
(* SpecLimit: at ten in the morning in Kyiv, with a daily limit of 0, 1 or *)
(* 2, the three callbacks run for chat 100 in any interleaving, a birthday *)
(* is due, sends succeed or fail, and the counts are reset.                *)
(***************************************************************************)
DailyLimits == 0..2
MorningHour == 8

LimitInit ==
    /\ InitMemory
    /\ InitScheduler
    /\ InitSession
    /\ InitAgent
    /\ InitSchema
    /\ hour = MorningHour
    /\ config \in [tz : {KyivOffset}, daily_limit : DailyLimits]

NextLimit ==
    \/ UpsertScheduledEvent(1, RankChat, "birthday", Date0315, TitleA, NULL)
    \/ CheckDatesStart
    \/ CheckDatesSent
    \/ RunEngagementStart(RankChat)
    \/ RunEngagementSent
    \/ BreakSilenceStart(RankChat)
    \/ BreakSilenceSent
    \/ \E name \in JobNames : SendFails(name)
    \/ ResetDailyCounts
    \/ Return

SpecLimit == LimitInit /\ [][NextLimit]_vars

(***************************************************************************)
(* SpecNight: the scheduler runs at one hour of the day, which is 7, 8,    *)
(* 15, 22 or 23 o'clock in Kyiv and another hour in New York, with a daily *)
(* limit of 1; birthdays are due in two chats and the three callbacks run  *)
(* for chat 100, one after the other or interleaved.                       *)
(***************************************************************************)
NightClockHours == {5, 6, 13, 20, 21}

NightInit ==
    /\ InitMemory
    /\ InitScheduler
    /\ InitSession
    /\ InitAgent
    /\ InitSchema
    /\ hour \in NightClockHours
    /\ config \in [tz : Timezones, daily_limit : {1}]

NextNight ==
    \/ \E c \in SchedulerChats :
          UpsertScheduledEvent(1, c, "birthday", Date0315, TitleA, NULL)
    \/ CheckDatesStart
    \/ CheckDatesSent
    \/ RunEngagementStart(RankChat)
    \/ RunEngagementSent
    \/ BreakSilenceStart(RankChat)
    \/ BreakSilenceSent
    \/ \E name \in JobNames : SendFails(name)
    \/ Return

SpecNight == NightInit /\ [][NextNight]_vars

(***************************************************************************)
(* SpecProfile: users 1 and 2 write messages in chat 100, which creates    *)
(* their profile rows; profiles are written for both users, before or      *)
(* after their first message, with and without an embedding, and read.     *)
(***************************************************************************)
ProfileTexts == {TextA, TextB}
ProfileEmbeddings == {NullEmb, E1}

NextProfile ==
    \/ \E u \in Users : IncrementMessageCount(u, RankChat, UserName, FirstName)
    \/ \E u \in Users, text \in ProfileTexts, e \in ProfileEmbeddings :
          UpdateProfile(u, text, e)
    \/ \E u \in Users : GetProfile(u)
    \/ Tick
    \/ Return

SpecProfile == Init /\ [][NextProfile]_vars

(***************************************************************************)
(* Inputs of the session history: messages arrive in two chats, the n-th   *)
(* message of a chat carrying the text n; a summarizer marks some of the   *)
(* messages it was shown as summarized.                                    *)
(***************************************************************************)
Roles == {"user", "model"}

\* How many messages the chat has received: the text of its latest one.
Arrivals(chat_id) ==
    IF sessions[chat_id] = <<>> THEN 0
    ELSE sessions[chat_id][Len(sessions[chat_id])].text

NextSession ==
    \/ \E c \in SessionChats, role \in Roles :
          /\ Arrivals(c) < MaxArrivals
          /\ AddMessage(c, role, Arrivals(c) + 1, IF role = "user" THEN FirstName ELSE NULL)
    \/ \E c \in SessionChats : GetHistory(c)
    \/ \E c \in SessionChats : GetUnsummarized(c)
    \/ \E c \in SessionChats :
          \E count \in 1 .. Len(GetUnsummarizedResult(sessions, summarized_count, c)) :
             MarkSummarized(c, count)
    \/ Return

SpecSession == Init /\ [][NextSession]_vars

(***************************************************************************)
(* Inputs of the memory_save tool: statements whose embeddings are the     *)
(* same, near duplicates (0.86, 0.92, 0.96), exactly 0.80 apart or         *)
(* unrelated, with the default importance or a given one.                  *)
(***************************************************************************)
E4 == <<4, 3>>
E5 == <<12, 5>>
SaveEmbeddings == {E1, E2, E4, E5}
DefaultImportance == One \div 2
SaveImportances == {DefaultImportance, (One \div 10) * 9}

NextSave ==
    \/ \E text \in ProfileTexts, e \in SaveEmbeddings, importance \in SaveImportances :
          MemorySave(text, importance, e)
    \/ Return

SpecSave == Init /\ [][NextSave]_vars

(***************************************************************************)
(* Inputs of the migration: a database at revision a1b2c3d4e5f6 in which   *)
(* events are stored and triggered; then the upgrade runs, any of its      *)
(* statements may fail, and a failed upgrade may be run again.             *)
(***************************************************************************)
MigrateInit ==
    /\ InitMemory
    /\ InitScheduler
    /\ InitSession
    /\ InitAgent
    /\ schema = [scheduled_events |-> OldScheduledEvents, scheduled_events_new |-> NoTable]
    /\ migration = [pc |-> "idle", saved |-> EmptySnapshot]
    /\ hour = 9
    /\ config = [tz |-> KyivOffset, daily_limit |-> PROACTIVE_DAILY_LIMIT]

MigrateTypes == {"birthday", "custom"}

NextMigrate ==
    \/ /\ migration.pc = "idle"
       /\ \E u \in EventUsers, ty \in MigrateTypes, d \in {Date0315, Date0420} :
             UpsertScheduledEvent(u, RankChat, ty, d, TitleA, NULL)
    \/ /\ migration.pc = "idle"
       /\ \E i \in 1..2 : MarkEventTriggered(i)
    \/ MigrationBegin
    \/ CreateNewTable
    \/ CopyRows
    \/ DropOldTable
    \/ RenameNewTable
    \/ \E name \in ScheduledEventsIndexes : CreateIndex(name)
    \/ MigrationCommit
    \/ MigrationFails
    \/ Return

SpecMigrate == MigrateInit /\ [][NextMigrate]_vars

(***************************************************************************)
(* Inputs of a turn: facts are learnt about two users of a chat, who write *)
(* to the bot; the embedding of the question, the fact search or the LLM   *)
(* may fail.                                                               *)
(***************************************************************************)
Question == "Who loves apples?"
Response == "Alice does."
TurnEmbeddings == {"fails", E1, E2}
TurnItems ==
    { Item(TextA, Absent, Absent, E1, AbsentAction, NoTarget),
      Item(TextB, High, Absent, E2, AbsentAction, NoTarget) }

NextTurn ==
    \/ \E u \in RankUsers, item \in TurnItems :
          UpsertUserFacts(u, RankChat, <<item>>)
    \/ \E u \in {1}, addressed \in BOOLEAN, e \in TurnEmbeddings,
          search_fails \in BOOLEAN, ask_fails \in BOOLEAN :
          HandleMessage(RankChat, u, UserName, FirstName, Question, addressed, e, search_fails,
                        ask_fails, Response)
    \/ Return

SpecTurn == Init /\ [][NextTurn]_vars

(***************************************************************************)
(* Inputs of the marking of events: a birthday and a holiday of the same   *)
(* day in one chat, so check_dates has two groups; the limit lets both,    *)
(* one or none through, and a send may fail.                               *)
(***************************************************************************)
NextPending ==
    \/ UpsertScheduledEvent(1, RankChat, "birthday", Date0315, TitleA, NULL)
    \/ UpsertScheduledEvent(2, RankChat, "birthday", Date0315, TitleB, NULL)
    \/ UpsertScheduledEvent(NULL, RankChat, "holiday", Date0315, TitleB, NULL)
    \/ CheckDatesStart
    \/ CheckDatesSent
    \/ SendFails("check_dates")
    \/ ResetDailyCounts
    \/ Return

SpecPending == LimitInit /\ [][NextPending]_vars

(***************************************************************************)
(* Inputs of the summarization: messages keep arriving in both chats; the  *)
(* caller asks needs_summary and, when it is true, summarizes what         *)
(* get_unsummarized returns and marks that many messages.                  *)
(***************************************************************************)
SummaryText == "hello"

Arrives(c) ==
    \E role \in Roles :
       AddMessage(c, role, SummaryText, IF role = "user" THEN FirstName ELSE NULL)

Summarizes(c) ==
    /\ NeedsSummaryResult(sessions, summarized_count, c, SUMMARY_THRESHOLD)
    /\ MarkSummarized(c, Len(GetUnsummarizedResult(sessions, summarized_count, c)))

NextSummary ==
    \/ \E c \in SessionChats : Arrives(c)
    \/ \E c \in SessionChats : NeedsSummary(c, SUMMARY_THRESHOLD)
    \/ \E c \in SessionChats : Summarizes(c)
    \/ \E c \in SessionChats : GetUnsummarized(c)
    \/ Return

\* Messages keep being added to every chat, the caller keeps summarizing
\* when a summary is needed, and every call returns.
SpecSummary ==
    /\ Init
    /\ [][NextSummary]_vars
    /\ \A c \in SessionChats : SF_vars(Arrives(c)) /\ SF_vars(Summarizes(c))
    /\ WF_vars(Return)

(***************************************************************************)
(* Vocabulary of the properties                                            *)
(***************************************************************************)
\* The owner of a fact: the user for a user-scope fact (its chat_id records
\* where it was learnt), the chat for a chat-scope fact.
Owner(f) == IF f.scope = "user" THEN f.user_id ELSE f.chat_id
CallOwner(c) == IF c.scope = "user" THEN c.user_id ELSE c.chat_id

Ids(rows) == {f.id : f \in rows}
RowOf(rows, id) == CHOOSE f \in rows : f.id = id

\* An _upsert_facts call with a single candidate, and that candidate
OneCandidate(c) == c.op = "upsert_facts" /\ Len(c.facts) = 1
Candidate(c) == c.facts[1]
CandText(c) == Strip(Candidate(c).fact)
CandAction(c) == NormalizeAction(GetAction(Candidate(c)))
CandTarget(c) == ParseTargetId(Candidate(c).target_fact_id)
CandImportance(c) == Clamp01(GetOr(Candidate(c).importance, Num(One \div 2)))
CandConfidence(c) == Clamp01(GetOr(Candidate(c).confidence, Num((One \div 10) * 8)))

\* The target id names a row of the call's scope and owner.
TargetOfCallOwner(rows, c) ==
    \E f \in rows : /\ f.id = CandTarget(c)
                    /\ f.scope = c.scope
                    /\ Owner(f) = CallOwner(c)

\* The same call, had its candidate carried keep_add_new.
AsKeepAddNew(rows, next, c, ts) ==
    UpsertLoop([rows |-> rows, next |-> next, raised |-> FALSE],
               c.scope, c.user_id, c.chat_id,
               <<[Candidate(c) EXCEPT !.action = "keep_add_new"]>>, ts)

(***************************************************************************)
(* C1. An update_existing / deactivate_existing candidate whose target id  *)
(* names no row, or a row of another scope or another owner than the       *)
(* call's, leaves that row as it is, touches only rows of the call's own   *)
(* scope and owner, and has exactly the effect the same candidate has with *)
(* action keep_add_new.                                                    *)
(***************************************************************************)
C1_Case(rows, c) ==
    /\ OneCandidate(c)
    /\ CandAction(c) \in {"update_existing", "deactivate_existing"}
    /\ ~TargetOfCallOwner(rows, c)

C1_StaleTargetFallsBack ==
    [][C1_Case(facts, call') =>
        /\ \A f \in facts : f.id = CandTarget(call') => f \in facts'
        /\ \A g \in facts' \ facts :
              g.scope = call'.scope /\ Owner(g) = CallOwner(call')
        /\ facts' = AsKeepAddNew(facts, nextId, call', now).rows
        /\ nextId' = AsKeepAddNew(facts, nextId, call', now).next
        /\ ret' = NoRet]_vars

\* A deactivate_existing aimed at an active fact of another owner has returned:
\* the fact is still active and the candidate was added as a new row.
C1_Witness ==
    /\ OneCandidate(call)
    /\ CandAction(call) = "deactivate_existing"
    /\ \E f \in facts : /\ f.id = CandTarget(call)
                        /\ f.scope = call.scope
                        /\ Owner(f) # CallOwner(call)
                        /\ f.is_active = 1
    /\ \E g \in facts : /\ g.id = nextId - 1
                        /\ g.id # CandTarget(call)
                        /\ g.fact_text = CandText(call)
                        /\ g.scope = call.scope
                        /\ Owner(g) = CallOwner(call)

(***************************************************************************)
(* C2. Every row returned by search_facts_by_embedding(chat c, asker u)    *)
(* is an active fact with an embedding, and is a chat-scope fact of c, or  *)
(* a user-scope fact of u, or a user-scope fact of a user with a           *)
(* chat_memberships row for c.                                             *)
(***************************************************************************)
C2_MayBeShown(f, c) ==
    /\ f.is_active = 1
    /\ f.embedding # NullEmb
    /\ \/ f.scope = "chat" /\ f.chat_id = c.chat_id
       \/ f.scope = "user" /\ f.user_id = c.asking_user_id
       \/ f.scope = "user" /\ <<f.user_id, c.chat_id>> \in memberships

C2_SearchShowsOnlyVisibleFacts ==
    call.op = "search_facts_by_embedding" =>
        \A i \in 1..Len(ret.v) :
            \E f \in facts : /\ f.id = ret.v[i].fact_id
                             /\ f.scope = ret.v[i].scope
                             /\ C2_MayBeShown(f, call)

\* A search has returned the fact of another member of the chat, and has
\* left out an active fact with an embedding that belongs to another chat.
C2_Witness ==
    /\ call.op = "search_facts_by_embedding"
    /\ \E i \in 1..Len(ret.v) :
          /\ ret.v[i].scope = "user"
          /\ ret.v[i].user_id # call.asking_user_id
    /\ \E f \in facts :
          /\ f.is_active = 1
          /\ f.embedding # NullEmb
          /\ f.scope = "chat"
          /\ f.chat_id # call.chat_id
          /\ \A i \in 1..Len(ret.v) : ret.v[i].fact_id # f.id

(***************************************************************************)
(* C3. A deactivate_existing candidate (with a text, so that it is not     *)
(* discarded) whose target id names a row of the call's scope and owner    *)
(* sets is_active = 0 on that row and does nothing else: no row is added,  *)
(* the target keeps its text, embedding, importance and confidence, every  *)
(* other row is unchanged.                                                 *)
(***************************************************************************)
C3_Case(rows, c) ==
    /\ OneCandidate(c)
    /\ CandText(c) # <<>>
    /\ CandAction(c) = "deactivate_existing"
    /\ TargetOfCallOwner(rows, c)

C3_DeactivateOnlyDeactivates ==
    [][C3_Case(facts, call') =>
        /\ Ids(facts') = Ids(facts)
        /\ \A f \in facts :
              LET g == RowOf(facts', f.id)
              IN  IF f.id = CandTarget(call')
                  THEN g = [f EXCEPT !.is_active = 0, !.updated_at = g.updated_at]
                  ELSE g = f]_vars

(***************************************************************************)
(* C4. An update_existing candidate (with a text) whose target id names a  *)
(* row of the call's scope and owner, active or not, leaves the number of  *)
(* rows unchanged; afterwards the target row holds the candidate's text,   *)
(* its embedding when it carries one, its clamped importance and           *)
(* confidence, and is active.                                              *)
(***************************************************************************)
C4_Case(rows, c) ==
    /\ OneCandidate(c)
    /\ CandText(c) # <<>>
    /\ CandAction(c) = "update_existing"
    /\ TargetOfCallOwner(rows, c)

C4_UpdateOverwritesTarget ==
    [][C4_Case(facts, call') =>
        /\ Cardinality(facts') = Cardinality(facts)
        /\ \E g \in facts' :
              /\ g.id = CandTarget(call')
              /\ g.fact_text = CandText(call')
              /\ Candidate(call').embedding # NullEmb
                    => g.embedding = Candidate(call').embedding
              /\ g.importance = CandImportance(call')
              /\ g.confidence = CandConfidence(call')
              /\ g.is_active = 1]_vars

(***************************************************************************)
(* C5. A keep_add_new candidate (with a text) whose text equals that of a  *)
(* row of the call's scope and owner, active or not, refreshes such a row  *)
(* in place (importance, confidence, activation; the embedding when it     *)
(* carries one) and inserts nothing; when there is no such row it inserts  *)
(* exactly one row: active, use_count 0, last_used_at NULL.                *)
(***************************************************************************)
C5_Case(c) ==
    /\ OneCandidate(c)
    /\ CandText(c) # <<>>
    /\ CandAction(c) = "keep_add_new"

SameTextOfCallOwner(rows, c) ==
    {f \in rows : /\ f.scope = c.scope
                  /\ Owner(f) = CallOwner(c)
                  /\ f.fact_text = CandText(c)}

C5_KeepAddNewRefreshesOrInserts ==
    [][C5_Case(call') =>
        IF SameTextOfCallOwner(facts, call') # {}
        THEN /\ Ids(facts') = Ids(facts)
             /\ \E f \in SameTextOfCallOwner(facts, call') :
                   LET g == RowOf(facts', f.id)
                   IN  /\ g.is_active = 1
                       /\ g.importance = CandImportance(call')
                       /\ g.confidence = CandConfidence(call')
                       /\ Candidate(call').embedding # NullEmb
                             => g.embedding = Candidate(call').embedding
        ELSE /\ facts \subseteq facts'
             /\ \E g \in facts' :
                   /\ facts' = facts \cup {g}
                   /\ g.id \notin Ids(facts)
                   /\ g.fact_text = CandText(call')
                   /\ g.is_active = 1
                   /\ g.use_count = 0
                   /\ g.last_used_at = NULL]_vars

(***************************************************************************)
(* C6. delete_fact is the only operation that removes a row: a step of any *)
(* other operation (the upserts, update_fact_text, mark_facts_used, the    *)
(* listings and searches) keeps every row, with its id, scope, user_id and *)
(* chat_id; ids stay unique and a new row never takes an id that was       *)
(* handed out before; delete_fact removes at most the row it names.        *)
(***************************************************************************)
C6_OnlyDeleteRemovesRows ==
    [][/\ call'.op # "delete_fact" =>
             \A f \in facts :
                 \E g \in facts' : /\ g.id = f.id
                                   /\ g.scope = f.scope
                                   /\ g.user_id = f.user_id
                                   /\ g.chat_id = f.chat_id
       /\ call'.op = "delete_fact" =>
             /\ facts' \subseteq facts
             /\ \A f \in facts \ facts' : f.id = call'.fact_id
       /\ \A f \in facts', g \in facts' : f.id = g.id => f = g
       /\ \A g \in facts' : g.id \notin Ids(facts) => g.id >= nextId]_vars

\* A deactivate_existing has hit its target (the candidate's text is in no
\* row, so it was not added): the row is inactive and still in the table.
C6_Witness ==
    /\ OneCandidate(call)
    /\ CandText(call) # <<>>
    /\ CandAction(call) = "deactivate_existing"
    /\ \E f \in facts : f.id = CandTarget(call) /\ f.is_active = 0
    /\ \A g \in facts : g.fact_text # CandText(call)

(***************************************************************************)
(* C7. delete_fact and update_fact_text return True exactly when the id    *)
(* names a user-scope row owned by the given user, and then delete that    *)
(* row / replace its text and clear its embedding; otherwise they return   *)
(* False and leave the table as it was.                                    *)
(***************************************************************************)
C7_Hit(rows, c) ==
    \E f \in rows : f.id = c.fact_id /\ f.scope = "user" /\ f.user_id = c.user_id

C7_OwnerOnlyDeleteAndEdit ==
    [][call'.op \in {"delete_fact", "update_fact_text"} =>
        /\ ret' = [t |-> "bool", v |-> C7_Hit(facts, call')]
        /\ ~C7_Hit(facts, call') => facts' = facts
        /\ (C7_Hit(facts, call') /\ call'.op = "delete_fact") =>
              facts' = facts \ {RowOf(facts, call'.fact_id)}
        /\ (C7_Hit(facts, call') /\ call'.op = "update_fact_text") =>
              LET f == RowOf(facts, call'.fact_id)
              IN  facts' = (facts \ {f}) \cup
                           {[f EXCEPT !.fact_text = call'.new_text,
                                      !.embedding = NullEmb,
                                      !.updated_at = now]}]_vars

\* delete_fact has refused to delete a fact that exists but belongs to
\* another user.
C7_Witness ==
    /\ call.op = "delete_fact"
    /\ ret = [t |-> "bool", v |-> FALSE]
    /\ \E f \in facts : /\ f.id = call.fact_id
                        /\ f.scope = "user"
                        /\ f.user_id # call.user_id

(***************************************************************************)
(* C8. A fact whose last_used_at is t (as mark_facts_used leaves it) is in *)
(* no result of a search made less than cooldown_seconds after t; once     *)
(* cooldown_seconds or more have passed, or when last_used_at is NULL, a   *)
(* fact that is eligible otherwise (visible, similarity defined and at     *)
(* least min_semantic) is in the result unless `limit` rows fill it.       *)
(***************************************************************************)
C8_Elapsed(f) == (now - f.last_used_at) * SECONDS_PER_DAY

C8_Shown(f) == \E i \in 1..Len(ret.v) : ret.v[i].fact_id = f.id

C8_EligibleOtherwise(f, c) ==
    /\ C2_MayBeShown(f, c)
    /\ CosineSimilarity(f.embedding, c.query_embedding) # UNDEFINED
    /\ CosineSimilarity(f.embedding, c.query_embedding) >= c.min_semantic

C8_CooldownHidesRecentlyUsed ==
    call.op = "search_facts_by_embedding" =>
        \A f \in facts :
            /\ (f.last_used_at # NULL /\ C8_Elapsed(f) < call.cooldown_seconds)
                  => ~C8_Shown(f)
            /\ (/\ C8_EligibleOtherwise(f, call)
                /\ \/ f.last_used_at = NULL
                   \/ C8_Elapsed(f) >= call.cooldown_seconds)
                  => (C8_Shown(f) \/ Len(ret.v) = call.limit)

\* A search has left out a fact used less than the cooldown ago, which it
\* would show otherwise, and has shown a fact used exactly the cooldown ago.
C8_Witness ==
    /\ call.op = "search_facts_by_embedding"
    /\ \E f \in facts : /\ C8_EligibleOtherwise(f, call)
                        /\ f.last_used_at # NULL
                        /\ C8_Elapsed(f) < call.cooldown_seconds
                        /\ ~C8_Shown(f)
    /\ \E g \in facts : /\ g.last_used_at # NULL
                        /\ C8_Elapsed(g) = call.cooldown_seconds
                        /\ C8_Shown(g)

(***************************************************************************)
(* C9. A deactivated fact keeps its row (until delete_fact) and is in no   *)
(* result of find_similar_facts, search_facts_by_embedding,                *)
(* get_user_facts, get_chat_facts or get_user_facts_page; an               *)
(* update_existing candidate (with a text) naming it under its scope and   *)
(* owner makes it active again.                                            *)
(***************************************************************************)
C9_ActiveTexts(rows, scope, owner) ==
    {f.fact_text : f \in {g \in rows : /\ g.scope = scope
                                        /\ Owner(g) = owner
                                        /\ g.is_active = 1}}

C9_InactiveHiddenUntilUpdated ==
    [][/\ call'.op # "delete_fact" =>
             \A f \in facts : f.is_active = 0 => f.id \in Ids(facts')
       /\ call'.op \in {"find_similar_facts", "search_facts_by_embedding"} =>
             \A i \in 1..Len(ret'.v) :
                 RowOf(facts', ret'.v[i].fact_id).is_active = 1
       /\ call'.op = "get_user_facts_page" =>
             /\ \A i \in 1..Len(ret'.v.facts) :
                   RowOf(facts', ret'.v.facts[i].id).is_active = 1
             /\ ret'.v.total =
                   Cardinality({f \in facts' : /\ f.scope = "user"
                                               /\ f.user_id = call'.user_id
                                               /\ f.is_active = 1})
       /\ call'.op = "get_user_facts" =>
             \A i \in 1..Len(ret'.v) :
                 ret'.v[i] \in C9_ActiveTexts(facts', "user", call'.user_id)
       /\ call'.op = "get_chat_facts" =>
             \A i \in 1..Len(ret'.v) :
                 ret'.v[i] \in C9_ActiveTexts(facts', "chat", call'.chat_id)
       /\ (C4_Case(facts, call') /\ RowOf(facts, CandTarget(call')).is_active = 0)
             => RowOf(facts', CandTarget(call')).is_active = 1]_vars

(***************************************************************************)
(* C10. search_facts_by_embedding returns at most `limit` rows, each an    *)
(* eligible row (visible, similarity defined and at least min_semantic,    *)
(* not in cooldown) with its score, in order of non-increasing score; an   *)
(* eligible row is left out only when `limit` rows are returned and none   *)
(* of them has a lower score than it.                                      *)
(***************************************************************************)
C10_Score(f, c) ==
    FACT_WEIGHT_SEMANTIC * CosineSimilarity(f.embedding, c.query_embedding)
    + FACT_WEIGHT_RECENCY * Recency(f, now)
    + FACT_WEIGHT_IMPORTANCE * Clamp01(Num(f.importance))

C10_Eligible(f, c) ==
    /\ C8_EligibleOtherwise(f, c)
    /\ ~(f.last_used_at # NULL /\ C8_Elapsed(f) < c.cooldown_seconds)

C10_TopLimitByScore ==
    call.op = "search_facts_by_embedding" =>
        /\ Len(ret.v) <= call.limit
        /\ \A i \in 1..Len(ret.v) :
              /\ ret.v[i].semantic_score >= call.min_semantic
              /\ \E f \in facts :
                    /\ f.id = ret.v[i].fact_id
                    /\ C10_Eligible(f, call)
                    /\ ret.v[i].semantic_score =
                          CosineSimilarity(f.embedding, call.query_embedding)
                    /\ ret.v[i].score = C10_Score(f, call)
        /\ \A i \in 1..Len(ret.v), j \in 1..Len(ret.v) :
              i < j => /\ ret.v[i].score >= ret.v[j].score
                       /\ ret.v[i].fact_id # ret.v[j].fact_id
        /\ \A f \in facts :
              (C10_Eligible(f, call) /\ ~C8_Shown(f)) =>
                  /\ Len(ret.v) = call.limit
                  /\ \A i \in 1..Len(ret.v) : ret.v[i].score >= C10_Score(f, call)

\* A search with limit 1 has returned the later of two eligible rows, the
\* one with the strictly higher score.
C10_Witness ==
    /\ call.op = "search_facts_by_embedding"
    /\ call.limit = 1
    /\ Len(ret.v) = 1
    /\ \E f \in facts : /\ C10_Eligible(f, call)
                        /\ f.id < ret.v[1].fact_id
                        /\ C10_Score(f, call) < ret.v[1].score

(***************************************************************************)
(* C11. In a search result the rank is strictly monotone in recency and in *)
(* importance: of two eligible facts with the same embedding, the one with *)
(* the later updated_at (importance being equal), or with the higher       *)
(* importance (updated_at being equal), comes first whenever the other one *)
(* is returned.                                                            *)
(***************************************************************************)
C11_Position(f) == CHOOSE i \in 1..Len(ret.v) : ret.v[i].fact_id = f.id

C11_RankedAbove(f, g) ==
    C8_Shown(g) => (C8_Shown(f) /\ C11_Position(f) < C11_Position(g))

C11_Fresher(f, g) ==
    \/ f.importance = g.importance /\ f.updated_at > g.updated_at
    \/ f.updated_at = g.updated_at /\ f.importance > g.importance

C11_RankStrictlyMonotone ==
    call.op = "search_facts_by_embedding" =>
        \A f \in facts, g \in facts :
            (/\ C10_Eligible(f, call)
             /\ C10_Eligible(g, call)
             /\ f.embedding = g.embedding
             /\ C11_Fresher(f, g)) => C11_RankedAbove(f, g)

(***************************************************************************)
(* C12. Every stored fact has importance and confidence within [0, 1]. A   *)
(* candidate that writes a row (a dict with a text, neither noop nor       *)
(* deactivate_existing) stores 1 for a value above 1, 0 for a value below  *)
(* 0, 0 for None or a non-numeric value, the default (0.5, 0.8) for a      *)
(* missing key and the value itself otherwise; a call whose candidates are *)
(* dicts does not raise.                                                   *)
(***************************************************************************)
C12_Stored(value, default) ==
    CASE value.t = "absent" -> default
      [] value.t = "num" /\ value.v > One -> One
      [] value.t = "num" /\ value.v < 0 -> 0
      [] value.t = "num" -> value.v
      [] OTHER -> 0

C12_Writes(c) ==
    /\ c.op = "upsert_facts"
    /\ Len(c.facts) = 1
    /\ IsDict(c.facts[1])
    /\ CandText(c) # <<>>
    /\ CandAction(c) \notin {"noop", "deactivate_existing"}

RECURSIVE C13_WithoutFailing(_)
C13_WithoutFailing(items) ==
    IF items = <<>> THEN <<>>
    ELSE IF IsDict(Head(items))
         THEN <<Head(items)>> \o C13_WithoutFailing(Tail(items))
         ELSE C13_WithoutFailing(Tail(items))

C13_CandidatesAppliedIndependently ==
    [][call'.op = "upsert_facts" =>
        facts' = UpsertLoop([rows |-> facts, next |-> nextId, raised |-> FALSE],
                            call'.scope, call'.user_id, call'.chat_id,
                            C13_WithoutFailing(call'.facts), now).rows]_vars

(***************************************************************************)
(* C14. The candidates of one call are applied in list order, each seeing  *)
(* the effects of the ones before it: the rows after the call (timestamps  *)
(* aside) are those that result from passing the candidates one per call   *)
(* in the same order.                                                      *)
(***************************************************************************)
\* The table after a call with the single candidate `item`
C14_OneCall(st, c, item, ts) ==
    LET r == UpsertLoop([rows |-> st.rows, next |-> st.next, raised |-> FALSE],
                        c.scope, c.user_id, c.chat_id, <<item>>, ts)
    IN  IF r.raised THEN st ELSE [rows |-> r.rows, next |-> r.next]

RECURSIVE C14_OnePerCall(_, _, _, _)
C14_OnePerCall(st, c, items, ts) ==
    IF items = <<>> THEN st
    ELSE C14_OnePerCall(C14_OneCall(st, c, Head(items), ts), c, Tail(items), ts)

C14_BatchEqualsOnePerCall ==
    [][call'.op = "upsert_facts" =>
        facts' = C14_OnePerCall([rows |-> facts, next |-> nextId],
                                call', call'.facts, now).rows]_vars

(***************************************************************************)
(* C15. A candidate whose action is noop (in any case, with surrounding    *)
(* blanks) or whose text is empty after trimming causes no mutation,       *)
(* whatever target it carries: a call with only such candidates leaves the *)
(* table and the id sequence as they were, and any call has the effect of  *)
(* the same call without them.                                             *)
(***************************************************************************)
C15_Discarded(item) ==
    /\ IsDict(item)
    /\ \/ \A i \in 1..Len(item.fact) : item.fact[i] = " "
       \/ item.action \in {"noop", " NOOP "}

RECURSIVE C15_WithoutDiscarded(_)
C15_WithoutDiscarded(items) ==
    IF items = <<>> THEN <<>>
    ELSE IF C15_Discarded(Head(items))
         THEN C15_WithoutDiscarded(Tail(items))
         ELSE <<Head(items)>> \o C15_WithoutDiscarded(Tail(items))

C15_DiscardedCandidatesChangeNothing ==
    [][call'.op = "upsert_facts" =>
        LET rest == C15_WithoutDiscarded(call'.facts)
            r == UpsertLoop([rows |-> facts, next |-> nextId, raised |-> FALSE],
                            call'.scope, call'.user_id, call'.chat_id, rest, now)
        IN  /\ rest = <<>> => (facts' = facts /\ nextId' = nextId /\ ret' = NoRet)
            /\ facts' = IF r.raised THEN facts ELSE r.rows]_vars

\* A call with a single noop candidate that names an active fact with
\* another text has returned; the fact is as it was.
C15_Witness ==
    /\ call.op = "upsert_facts"
    /\ Len(call.facts) = 1
    /\ C15_Discarded(call.facts[1])
    /\ call.facts[1].action = " NOOP "
    /\ \E f \in facts : /\ f.id = call.facts[1].target_fact_id.v
                        /\ f.is_active = 1
                        /\ f.fact_text # Strip(call.facts[1].fact)

(***************************************************************************)
(* C16. mark_facts_used(ids) adds exactly 1 to use_count and sets          *)
(* last_used_at to the current time on every row whose id occurs in ids,   *)
(* once per row however often the id occurs; it changes no other row and   *)
(* no other column, adds and removes no row, and changes nothing when ids  *)
(* is empty.                                                               *)
(***************************************************************************)
C16_Named(c, f) == \E i \in 1..Len(c.fact_ids) : c.fact_ids[i] = f.id

C16_MarkUsedCountsOncePerRow ==
    [][call'.op = "mark_facts_used" =>
        /\ Ids(facts') = Ids(facts)
        /\ Cardinality(facts') = Cardinality(facts)
        /\ \A f \in facts :
              RowOf(facts', f.id) =
                  IF C16_Named(call', f)
                  THEN [f EXCEPT !.use_count = f.use_count + 1,
                                 !.last_used_at = now]
                  ELSE f
        /\ call'.fact_ids = <<>> => facts' = facts
        /\ nextId' = nextId
        /\ ret' = NoRet]_vars

\* mark_facts_used([1, 1]) has returned on a later day: fact 1 was counted
\* once and carries that day, the other fact was never used.
C16_Witness ==
    /\ call.op = "mark_facts_used"
    /\ call.fact_ids = <<1, 1>>
    /\ now > 0
    /\ \E f \in facts : f.id = 1 /\ f.use_count = 1 /\ f.last_used_at = now
    /\ \E g \in facts : g.id # 1 /\ g.use_count = 0 /\ g.last_used_at = NULL

(***************************************************************************)
(* C17. With an unchanged table and a page size s >= 1, the pages          *)
(* get_user_facts_page(u, 0, s), (u, 1, s), ... split the active           *)
(* user-scope facts of u: no id is on two pages, the ids of all pages      *)
(* together are exactly the ids of those facts, every page has at most s   *)
(* entries, every page reports the same total_count (the number of those   *)
(* facts), and a page past the end is empty with that same total.  The     *)
(* value returned by a call is the page of its arguments.                  *)
(***************************************************************************)
C17_Page(u, p, s) == GetUserFactsPageResult(facts, u, p, s)

C17_PageIds(u, p, s) ==
    {C17_Page(u, p, s).facts[i].id : i \in 1..Len(C17_Page(u, p, s).facts)}

\* with s >= 1 the pages 0..|facts| reach past the last row of the table
C17_Pages == 0..Cardinality(facts)

C17_PagesPartitionActiveUserFacts ==
    call.op = "get_user_facts_page" =>
        LET u == call.user_id
            s == call.page_size
            active == ActiveUserFacts(facts, u)
        IN  /\ ret = [t |-> "page", v |-> C17_Page(u, call.page, s)]
            /\ \A p, q \in C17_Pages :
                  p # q => C17_PageIds(u, p, s) \cap C17_PageIds(u, q, s) = {}
            /\ UNION {C17_PageIds(u, p, s) : p \in C17_Pages} = Ids(active)
            /\ \A p \in C17_Pages :
                  /\ Len(C17_Page(u, p, s).facts) <= s
                  /\ Cardinality(C17_PageIds(u, p, s)) = Len(C17_Page(u, p, s).facts)
                  /\ C17_Page(u, p, s).total = Cardinality(active)
                  /\ \A i \in 1..Len(C17_Page(u, p, s).facts) :
                        C17_Page(u, p, s).facts[i].fact_text =
                            RowOf(facts, C17_Page(u, p, s).facts[i].id).fact_text
                  /\ p * s >= Cardinality(active) => C17_Page(u, p, s).facts = <<>>

\* Two active facts of the user written at the same instant, one per page:
\* page 1 of size 1 was returned with the second fact, page 2 is empty.
C17_Witness ==
    /\ call.op = "get_user_facts_page"
    /\ call.page = 1
    /\ call.page_size = 1
    /\ Cardinality(ActiveUserFacts(facts, call.user_id)) = 2
    /\ \A f, g \in ActiveUserFacts(facts, call.user_id) : f.updated_at = g.updated_at
    /\ Len(ret.v.facts) = 1
    /\ ret.v.total = 2
    /\ ret.v.facts[1].id \notin C17_PageIds(call.user_id, 0, 1)
    /\ C17_Page(call.user_id, 2, 1).facts = <<>>

(***************************************************************************)
(* C18. A row whose embedding cannot be compared with the query (it is     *)
(* absent, as after update_fact_text, has another length than the query,   *)
(* or is all zeros) is never part of the result of find_similar_facts or   *)
(* search_facts_by_embedding, whatever the floor, and does not stop the    *)
(* search: the rows that can be compared are returned as usual.  The       *)
(* listings get_user_facts, get_chat_facts and get_user_facts_page still   *)
(* return the row while it is active.                                      *)
(***************************************************************************)
C18_Unusable(f, query_embedding) ==
    \/ f.embedding = NullEmb
    \/ Len(f.embedding) # Len(query_embedding)
    \/ \A i \in 1..Len(f.embedding) : f.embedding[i] = 0

C18_ReturnedIds == {ret.v[i].fact_id : i \in 1..Len(ret.v)}

C18_Searched ==
    IF call.op = "find_similar_facts"
    THEN {f \in facts : /\ f.is_active = 1
                        /\ f.scope = call.scope
                        /\ Owner(f) = CallOwner(call)}
    ELSE {f \in facts : /\ f.is_active = 1
                        /\ \/ f.scope = "chat" /\ f.chat_id = call.chat_id
                           \/ f.scope = "user" /\ f.user_id = call.asking_user_id}

C18_UnusableEmbeddingsSkipped ==
    /\ call.op \in {"find_similar_facts", "search_facts_by_embedding"} =>
          /\ ret.t \in {"similar", "scored"}
          /\ \A f \in facts :
                C18_Unusable(f, call.query_embedding) => f.id \notin C18_ReturnedIds
          /\ call.min_semantic < 0 =>
                C18_ReturnedIds =
                    Ids({f \in C18_Searched : ~C18_Unusable(f, call.query_embedding)})
    /\ call.op = "get_user_facts" =>
          \A f \in ActiveUserFacts(facts, call.user_id) : f.fact_text \in SeqRange(ret.v)
    /\ call.op = "get_chat_facts" =>
          \A f \in ActiveChatFacts(facts, call.chat_id) : f.fact_text \in SeqRange(ret.v)
    /\ call.op = "get_user_facts_page" =>
          \A f \in ActiveUserFacts(facts, call.user_id) :
              [id |-> f.id, fact_text |-> f.fact_text] \in SeqRange(ret.v.facts)

\* A search with a floor below every similarity has returned the one fact
\* that can be compared; the other fact it looked at had its text rewritten
\* and so lost its embedding.
C18_Witness ==
    /\ call.op = "search_facts_by_embedding"
    /\ call.min_semantic < 0
    /\ Len(ret.v) = 1
    /\ \E f \in C18_Searched : /\ f.fact_text = TextD
                                /\ f.embedding = NullEmb
                                /\ f.id \notin C18_ReturnedIds

(***************************************************************************)
(* C19. The table never holds two active scheduled_events rows with the    *)
(* same key (user_id or null, chat_id, event_type, title).  An             *)
(* upsert_scheduled_event whose key matches an active row updates that row *)
(* in place: the row keeps its id and takes the new date, no row is added  *)
(* or removed and every other row stays as it was.                         *)
(***************************************************************************)
C19_Key(e) == <<e.user_id, e.chat_id, e.event_type, e.title>>

C19_OneActiveRowPerKey(rows) ==
    \A e1, e2 \in rows :
        (e1.is_active = 1 /\ e2.is_active = 1 /\ C19_Key(e1) = C19_Key(e2)) => e1 = e2

C19_OneActiveEventPerKey ==
    [][/\ C19_OneActiveRowPerKey(events')
       /\ \A e \in events :
             (/\ call'.op = "upsert_scheduled_event"
              /\ e.is_active = 1
              /\ C19_Key(e) = C19_Key(call')) =>
                 /\ events' = (events \ {e}) \cup
                       {[e EXCEPT !.event_date = call'.event_date,
                                  !.source_fact_id =
                                      Coalesce(call'.source_fact_id, e.source_fact_id),
                                  !.updated_at = now]}
                 /\ nextEventId' = nextEventId
                 /\ ret' = NoRet]_vars

\* An event without a user was rescheduled to 03-15: its row still carries
\* the source fact of the earlier call, and another event exists besides.
C19_Witness ==
    /\ call.op = "upsert_scheduled_event"
    /\ call.user_id = NULL
    /\ call.event_date = Date0315
    /\ call.source_fact_id = NULL
    /\ Cardinality(events) >= 2
    /\ \E e \in events : /\ C19_Key(e) = C19_Key(call)
                          /\ e.event_date = Date0315
                          /\ e.source_fact_id = SourceFactId
                          /\ e.id < nextEventId - 1

(***************************************************************************)
(* C20. After an event was scheduled for (user_id, chat_id, event_type),   *)
(* a second upsert_scheduled_event for the same three values with another  *)
(* date and another title changes the existing event: no row is added,     *)
(* no active event of that user, chat and type keeps the old title, so     *)
(* get_events_for_date(old date) no longer returns it and                  *)
(* get_events_for_date(new date) returns the event under its new title.    *)
(***************************************************************************)
C20_SameEvent(e, c) ==
    /\ e.is_active = 1
    /\ e.user_id = c.user_id
    /\ e.chat_id = c.chat_id
    /\ e.event_type = c.event_type

C20_CorrectedTitleUpdatesEvent ==
    [][\A e \in events :
          (/\ call'.op = "upsert_scheduled_event"
           /\ C20_SameEvent(e, call')
           /\ e.title # call'.title
           /\ e.event_date # call'.event_date
           /\ {x \in events : C20_SameEvent(x, call')} = {e}) =>
              /\ Cardinality(events') = Cardinality(events)
              /\ GetEventsForDateResult(events', e.event_date) =
                     GetEventsForDateResult(events \ {e}, e.event_date)
              /\ \E i \in 1..Len(GetEventsForDateResult(events', call'.event_date)) :
                     LET r == GetEventsForDateResult(events', call'.event_date)[i]
                     IN  r.id = e.id /\ r.title = call'.title]_vars

(***************************************************************************)
(* C21. get_events_for_date(mmdd) returns, once each, exactly the active   *)
(* events whose event_date is mmdd or is a longer date that ends with "-"  *)
(* and mmdd: no inactive event, no event of another day; each entry shows  *)
(* the columns of its row; the entries are ordered by chat_id, then by     *)
(* event_type.                                                             *)
(***************************************************************************)
C21_Due(e, mmdd) ==
    \/ e.event_date = mmdd
    \/ /\ Len(e.event_date) > Len(mmdd)
       /\ e.event_date[Len(e.event_date) - Len(mmdd)] = "-"
       /\ \A i \in 1..Len(mmdd) :
             e.event_date[Len(e.event_date) - Len(mmdd) + i] = mmdd[i]

C21_InOrder(a, b) ==
    \/ a.chat_id < b.chat_id
    \/ a.chat_id = b.chat_id /\ EventTypeRank(a.event_type) <= EventTypeRank(b.event_type)

C21_ReturnsTheEventsOfTheDay ==
    call.op = "get_events_for_date" =>
        /\ ret.t = "events"
        /\ {ret.v[i].id : i \in 1..Len(ret.v)} =
              {e.id : e \in {x \in events : x.is_active = 1 /\ C21_Due(x, call.date_mmdd)}}
        /\ \A i, j \in 1..Len(ret.v) : ret.v[i].id = ret.v[j].id => i = j
        /\ \A i \in 1..Len(ret.v) :
              \E e \in events :
                  /\ e.id = ret.v[i].id
                  /\ ret.v[i] = [id |-> e.id, user_id |-> e.user_id,
                                 chat_id |-> e.chat_id, event_type |-> e.event_type,
                                 event_date |-> e.event_date, title |-> e.title,
                                 source_fact_id |-> e.source_fact_id,
                                 last_triggered |-> e.last_triggered]
        /\ \A i, j \in 1..Len(ret.v) : i < j => C21_InOrder(ret.v[i], ret.v[j])

\* Asked for 03-15 while three events exist: the one dated 2026-03-15 in
\* chat 100, scheduled last, comes before the one dated 03-15 in chat 200;
\* the event of 04-20 is left out.
C21_Witness ==
    /\ call.op = "get_events_for_date"
    /\ call.date_mmdd = Date0315
    /\ Cardinality(events) = 3
    /\ Len(ret.v) = 2
    /\ ret.v[1].event_date = Date20260315
    /\ ret.v[1].chat_id = 100
    /\ ret.v[2].event_date = Date0315
    /\ ret.v[2].chat_id = 200
    /\ ret.v[1].id > ret.v[2].id
    /\ \E e \in events : e.event_date = Date0420

(***************************************************************************)
(* C22. check_dates never starts to send a congratulation for an event     *)
(* whose last_triggered date is today's date, and so, however often it     *)
(* runs during one calendar day of the scheduler's timezone, every event   *)
(* is part of at most one congratulation sent on that day.                 *)
(***************************************************************************)
C22_Congratulations(id, day) ==
    {i \in 1..Len(journal) : /\ journal[i].job = "check_dates"
                             /\ id \in journal[i].events
                             /\ journal[i].day = day}

C22_OneCongratulationPerDay ==
    /\ jobs["check_dates"].pc = "send" =>
          \A i \in 1..Len(jobs["check_dates"].groups) :
              \A e \in events :
                  e.id \in jobs["check_dates"].groups[i].ids =>
                      (e.last_triggered = NULL
                       \/ StrftimeDate(e.last_triggered) #
                              StrftimeDate(jobs["check_dates"].today))
    /\ \A e \in events : \A i \in 1..Len(journal) :
          journal[i].job = "check_dates" =>
              Cardinality(C22_Congratulations(e.id, journal[i].day)) <= 1

(***************************************************************************)
(* C27. Between two reset_daily_counts calls (and before the first, and    *)
(* after the last) the messages that check_dates, run_engagement and       *)
(* break_silence together send to one chat are never more than the daily   *)
(* limit, however the callbacks interleave; with a limit of 0 no message   *)
(* is ever sent.                                                           *)
(***************************************************************************)
C27_Resets == {i \in 1..Len(journal) : journal[i].job = "reset_daily_counts"}

\* the messages sent to the chat after reset number i (after the start for 0)
\* and before the next reset
C27_SentAfter(i, chat_id) ==
    {k \in (i + 1)..Len(journal) :
        /\ journal[k].job # "reset_daily_counts"
        /\ journal[k].chat_id = chat_id
        /\ \A r \in C27_Resets : ~(i < r /\ r < k)}

C27_DailyLimitNeverExceeded ==
    \A chat_id \in SchedulerChats : \A i \in C27_Resets \cup {0} :
        Cardinality(C27_SentAfter(i, chat_id)) <= config.daily_limit

(***************************************************************************)
(* C28. When the local hour is 23 or later, or earlier than 8, no          *)
(* proactive callback gets as far as reading the events or composing a     *)
(* message: none waits in a send, no message is sent, no event is marked   *)
(* as triggered and no count changes.  Hour 8 is day and hour 23 is night: *)
(* a callback returns because of the night at those hours only.            *)
(***************************************************************************)
C28_Night(h) == h \in {23} \cup 0..7

C23_UpdateProfileStoresForAnyIdentity ==
    [][call'.op = "update_profile" =>
          /\ \E r \in profiles' :
                /\ r.user_id = call'.user_id
                /\ r.profile = call'.profile
                /\ r.profile_embedding = call'.embedding
                /\ r.updated_at = now
                /\ \A q \in profiles' : q.user_id = r.user_id => q = r
          /\ {r \in profiles' : r.user_id # call'.user_id} =
                {r \in profiles : r.user_id # call'.user_id}
          /\ GetProfileResult(profiles', call'.user_id) = call'.profile]_vars

\* C29: the history of a chat never holds more than max_messages entries and
\* is exactly the most recent min(n, max_messages) of the n messages added to
\* that chat, in arrival order, whatever is added to other chats; get_history
\* returns it.
C29_MostRecent(n) ==
    LET k == IF n < max_messages THEN n ELSE max_messages
    IN  [i \in 1 .. k |-> n - k + i]

C29_Texts(history) == [i \in 1 .. Len(history) |-> history[i].text]

C29_HistoryIsTheMostRecentMessages ==
    /\ \A c \in SessionChats :
          /\ Len(GetHistoryResult(sessions, c)) <= max_messages
          /\ C29_Texts(GetHistoryResult(sessions, c)) = C29_MostRecent(Arrivals(c))
    /\ (call # Idle /\ call.op = "get_history") => ret.v = sessions[call.chat_id]

C29_Witness ==
    /\ call # Idle /\ call.op = "get_history"
    /\ Arrivals(call.chat_id) > max_messages
    /\ \E c \in SessionChats : Arrivals(c) \in 1 .. (max_messages - 1)

\* C30: get_unsummarized returns exactly the messages still in the history
\* that no mark_summarized call has covered, in order; mark_summarized(count)
\* covers the count oldest messages not covered before.
C30_NotCovered(c) ==
    SelectSeq(sessions[c], LAMBDA m : m.text > summarized_count[c])

C30_UnsummarizedAreTheUncoveredMessages ==
    \A c \in SessionChats :
       GetUnsummarizedResult(sessions, summarized_count, c) = C30_NotCovered(c)

\* C26: save_or_update reports 'updated' or 'inserted'. If a stored memory is
\* more similar to the new embedding than duplicate_threshold, the most
\* similar one gets the new text and importance in place and no row is added
\* or changed otherwise; if none is, exactly one row is appended. After two
\* statements with the same embedding one active row holds the second.
C26_Similarity(row, embedding) == CosineSimilarity(row.embedding, embedding)

C26_Duplicates(rows, embedding) ==
    {i \in 1 .. Len(rows) : C26_Similarity(rows[i], embedding) > duplicate_threshold}

C26_UpdatedInPlace(i) ==
    /\ Len(memories') = Len(memories)
    /\ memories'[i].id = memories[i].id
    /\ memories'[i].content = call'.content
    /\ memories'[i].importance = call'.importance
    /\ memories'[i].is_active = 1
    /\ \A k \in 1 .. Len(memories) : k # i => memories'[k] = memories[k]

C26_Inserted ==
    /\ Len(memories') = Len(memories) + 1
    /\ SubSeq(memories', 1, Len(memories)) = memories
    /\ memories'[Len(memories')].content = call'.content
    /\ memories'[Len(memories')].embedding = call'.embedding
    /\ memories'[Len(memories')].importance = call'.importance
    /\ memories'[Len(memories')].is_active = 1

C26_Saves == call = Idle /\ call' # Idle /\ call'.op = "save_or_update"

C26_UpdatedOrInserted ==
    [][C26_Saves =>
         LET dup == C26_Duplicates(memories, call'.embedding)
         IN  /\ ret'.v \in {"updated", "inserted"}
             /\ dup # {} =>
                   /\ ret'.v = "updated"
                   /\ \E i \in dup :
                         /\ \A j \in dup : C26_Similarity(memories[j], call'.embedding)
                                               <= C26_Similarity(memories[i], call'.embedding)
                         /\ C26_UpdatedInPlace(i)
             /\ dup = {} => (ret'.v = "inserted" /\ C26_Inserted)
             /\ (Len(memories) = 1 /\ memories[1].embedding = call'.embedding) =>
                   /\ Len(memories') = 1
                   /\ memories'[1].content = call'.content
                   /\ memories'[1].importance = call'.importance
                   /\ memories'[1].is_active = 1]_vars

C26_Witness ==
    /\ call # Idle /\ call.op = "save_or_update"
    /\ ret.v = "updated"
    /\ Len(memories) = 2
    /\ memories[1].content = TextB /\ memories[1].embedding = E1
    /\ memories[1].importance = (One \div 10) * 9
    /\ call.embedding = E5
    /\ memories[2].embedding = E2

C24_SearchFailed ==
    /\ call = Idle /\ call' # Idle /\ call'.op = "handle_message"
    /\ call'.addressed
    /\ call'.embed_fails \/ call'.search_fails
    /\ ~call'.ask_fails

C24_FailedSearchDegradesTheTurn ==
    [][C24_SearchFailed =>
         /\ Len(effects') = 2
         /\ effects'[1].kind = "ask" /\ effects'[1].retrieved_profiles = NoProfiles
         /\ effects'[2] = ReplyEffect(call'.chat_id, call'.response)
         /\ facts' = facts]_vars

(***************************************************************************)
(* C36. The owner of a user-scope fact is the user; the chat is where it   *)
(* was learnt. An update_existing or deactivate_existing candidate of      *)
(* upsert_user_facts(u, c2) whose target is a user-scope fact of u learnt  *)
(* in another chat c1 is applied to that fact: no row is added, and the    *)
(* target is deactivated, or holds the candidate's text and is active.     *)
(***************************************************************************)
C36_Case(rows, c) ==
    /\ OneCandidate(c)
    /\ c.scope = "user"
    /\ CandText(c) # <<>>
    /\ CandAction(c) \in {"update_existing", "deactivate_existing"}
    /\ \E f \in rows : /\ f.id = CandTarget(c)
                       /\ f.scope = "user"
                       /\ f.user_id = c.user_id
                       /\ f.chat_id # c.chat_id

C36_TargetOfOtherChatIsApplied ==
    [][C36_Case(facts, call') =>
        /\ Ids(facts') = Ids(facts)
        /\ LET g == RowOf(facts', CandTarget(call'))
           IN  IF CandAction(call') = "deactivate_existing"
               THEN g.is_active = 0
               ELSE g.fact_text = CandText(call') /\ g.is_active = 1]_vars

(***************************************************************************)
(* C37. After any sequence of upsert_user_facts and upsert_chat_facts      *)
(* calls, whatever the actions of their candidates, no two rows of the     *)
(* same scope and owner hold the same fact_text.                           *)
(***************************************************************************)
C37_NoDuplicateTextPerOwner ==
    \A f, g \in facts :
       (f.scope = g.scope /\ Owner(f) = Owner(g) /\ f.fact_text = g.fact_text)
          => f.id = g.id

(***************************************************************************)
(* C32. In a turn addressed to the bot, mark_facts_used is called with     *)
(* exactly the ids of the facts retrieved for the turn, after the LLM was  *)
(* asked, and marks those facts and no other; when nothing is retrieved it *)
(* is not called; when the LLM call (or the retrieval) fails it is not     *)
(* called and no use_count or last_used_at changes.                        *)
(***************************************************************************)
C32_Turn ==
    call = Idle /\ call' # Idle /\ call'.op = "handle_message" /\ call'.addressed

C32_Failed == call'.embed_fails \/ call'.search_fails \/ call'.ask_fails

\* The facts the turn retrieves: the search of the question's embedding
C32_Retrieved ==
    SearchFactsResult(facts, memberships', now, call'.embedding, call'.chat_id,
                      call'.user_id, 3, One \div 5, 900)

C32_Marks(es) == {i \in 1 .. Len(es) : es[i].kind = "mark_facts_used"}

C32_MarksExactlyTheRetrievedFacts ==
    [][C32_Turn =>
         IF C32_Failed
         THEN C32_Marks(effects') = {} /\ facts' = facts
         ELSE LET ids == {C32_Retrieved[i].fact_id : i \in 1 .. Len(C32_Retrieved)}
              IN  /\ ids = {} => (C32_Marks(effects') = {} /\ facts' = facts)
                  /\ ids # {} =>
                        /\ C32_Marks(effects') = {2}
                        /\ effects'[1].kind = "ask"
                        /\ SeqRange(effects'[2].fact_ids) = ids
                        /\ Len(effects'[2].fact_ids) = Cardinality(ids)
                  /\ Ids(facts') = Ids(facts)
                  /\ \A f \in facts :
                        RowOf(facts', f.id) =
                           IF f.id \in ids
                           THEN [f EXCEPT !.use_count = @ + 1, !.last_used_at = now]
                           ELSE f]_vars

C32_Witness ==
    /\ call # Idle /\ call.op = "handle_message"
    /\ Len(effects) = 3
    /\ Len(effects[2].fact_ids) = 2
    /\ \A f \in facts : f.id \in SeqRange(effects[2].fact_ids) => f.use_count = 1

(***************************************************************************)
(* C35. check_dates marks an event triggered only when the congratulation  *)
(* of its (chat_id, event_type) group has been sent: the step that changes *)
(* a last_triggered is the one that records the sent message, and it marks *)
(* exactly the events of that message, all of its chat and type. The events*)
(* of a group skipped for the daily limit, or whose send raised, keep      *)
(* their last_triggered and are pending for a later run of the same day.   *)
(***************************************************************************)
C35_Marked ==
    {e \in events : \E g \in events' : g.id = e.id /\ g.last_triggered # e.last_triggered}

C35_Pending(rows, id) ==
    \E i \in 1 .. Len(GetEventsForDateResult(rows, StrftimeMmdd(LocalDay))) :
       LET e == GetEventsForDateResult(rows, StrftimeMmdd(LocalDay))[i]
       IN  e.id = id /\ ~TriggeredToday(e, LocalDay)

C35_SendRaised ==
    /\ jobs["check_dates"].pc = "send"
    /\ jobs'["check_dates"].pc = "idle"
    /\ jobs'["check_dates"].outcome = "failed"

C35_Skipped ==
    /\ jobs["check_dates"].pc = "idle"
    /\ jobs'["check_dates"] # jobs["check_dates"]

C35_MarkedOnlyAfterSent ==
    [][/\ C35_Marked # {} =>
            /\ Len(journal') = Len(journal) + 1
            /\ LET sent == journal'[Len(journal')]
               IN  /\ sent.job = "check_dates"
                   /\ {e.id : e \in C35_Marked} = sent.events
                   /\ \A e \in C35_Marked : e.chat_id = sent.chat_id
                   /\ \A e, g \in C35_Marked : e.event_type = g.event_type
       /\ C35_SendRaised =>
            /\ events' = events
            /\ \A id \in Head(jobs["check_dates"].groups).ids : C35_Pending(events', id)
       /\ C35_Skipped =>
            /\ events' = events
            /\ \A e \in events :
                  C35_Pending(events, e.id) => C35_Pending(events', e.id)]_vars

C35_Witness ==
    /\ jobs["check_dates"].pc = "idle" /\ jobs["check_dates"].outcome = "done"
    /\ config.daily_limit = 1
    /\ Len(journal) = 1 /\ journal[1].job = "check_dates"
    /\ Cardinality(journal[1].events) = 2
    /\ Cardinality(events) = 3
    /\ \E e \in events : e.last_triggered = NULL /\ C35_Pending(events, e.id)

(***************************************************************************)
(* C38. Summarization never starves: while messages keep being added to a  *)
(* chat and the caller marks what get_unsummarized returned each time      *)
(* needs_summary is true, needs_summary is true again and again.           *)
(***************************************************************************)
C38_SummarizationNeverStarves ==
    \A c \in SessionChats :
       []<>NeedsSummaryResult(sessions, summarized_count, c, SUMMARY_THRESHOLD)

(***************************************************************************)
(* Inputs of the agent graph: the LLM answers each agent step with no tool *)
(* call, with one, or with two; the memory store is empty.                 *)
(***************************************************************************)
GraphToolCalls ==
    {<<>>, <<"web_search">>, <<"memory_search">>, <<"memory_search", "web_search">>}

NextGraph ==
    \/ GraphInvoke(Question)
    \/ \E tool_calls \in GraphToolCalls : AgentNode(tool_calls)
    \/ ToolsNode
    \/ GraphRecursionError

SpecGraph == Init /\ [][NextGraph]_vars

(***************************************************************************)
(* C40: an invocation of the compiled agent graph performs at most         *)
(* MAX_AGENT_STEPS agent steps, even when the LLM asks for a tool on every *)
(* step.                                                                   *)
(***************************************************************************)
C40_AtMostMaxAgentSteps == graph.agent_steps <= MAX_AGENT_STEPS

(***************************************************************************)
(* Inputs of the silence timer: messages of a user arrive in two chats and *)
(* are handled; reset_silence_timer, which nothing in src/bot calls, is    *)
(* also called on its own; the queue runs the jobs it holds.               *)
(***************************************************************************)
NextSilence ==
    \/ \E c \in SessionChats, addressed \in BOOLEAN :
          HandleMessage(c, 1, UserName, FirstName, Question, addressed, E1, FALSE,
                        FALSE, Response)
    \/ \E c \in SessionChats : ResetSilenceTimer(c)
    \/ \E c \in SessionChats : SilenceCallback(c)
    \/ BreakSilenceSent
    \/ SendFails("break_silence")
    \/ Return

SpecSilence == Init /\ [][NextSilence]_vars

(***************************************************************************)
(* C33: every message handled by handle_message resets the silence timer   *)
(* of its chat: after the handler exactly one silence job of that chat is  *)
(* pending.                                                                *)
(***************************************************************************)
C33_PendingSilenceJobs(queue, chat_id) ==
    {i \in 1 .. Len(queue) : queue[i].name = SilenceJobName(chat_id)}

C33_MessageResetsSilenceTimer ==
    [][(call = Idle /\ call'.op = "handle_message")
          => Cardinality(C33_PendingSilenceJobs(job_queue', call'.chat_id)) = 1]_vars

(***************************************************************************)
(* Inputs of the fact extraction: the LLM extracts up to two candidates    *)
(* from the history of a chat, decides what to do with a candidate that    *)
(* has similar facts, and finds a birthday in the text "a".                *)
(***************************************************************************)
Extracted(scope, fact, embedding, action, target) ==
    [scope |-> scope, fact |-> fact, importance |-> Absent, confidence |-> Absent,
     embedding |-> embedding,
     decision |-> [action |-> action, target_fact_id |-> target]]

ExtractedFacts ==
    { Extracted("user", TextA, E1, "keep_add_new", NoTarget),
      Extracted("user", TextB, E2, "update_existing", IntTarget(1)),
      Extracted("chat", TextB, E2, "keep_add_new", NoTarget),
      Extracted("user", <<" ">>, E1, "keep_add_new", NoTarget) }

ExtractedLists ==
    {<<>>} \cup {<<x>> : x \in ExtractedFacts}
           \cup {<<x, y>> : x \in ExtractedFacts, y \in ExtractedFacts}

NoDate == [event_type |-> "none", event_date |-> <<>>, title |-> ""]

\* What gemini_client.extract_date_from_fact answers for the text
ExtractDateFromFact(fact_text) ==
    IF fact_text = TextA
    THEN [event_type |-> "birthday", event_date |-> Date0315, title |-> TitleA]
    ELSE NoDate

NextExtract ==
    \/ \E u \in Users, extracted \in ExtractedLists :
          UpdateUserProfile(u, RankChat, extracted)
    \/ Tick
    \/ Return

SpecExtract == Init /\ [][NextExtract]_vars

(***************************************************************************)
(* C34: after a profile update has upserted extracted facts, every         *)
(* recurring date found in the text of an upserted fact is stored as a     *)
(* scheduled event of the chat.                                            *)
(***************************************************************************)
C34_Upserted(before, after) == {f \in after : f \notin before}

C34_Stored(rows, chat_id, found) ==
    \E e \in rows :
       /\ e.chat_id = chat_id
       /\ e.event_type = found.event_type
       /\ e.event_date = found.event_date
       /\ e.is_active = 1

C34_DatesOfUpsertedFactsStored ==
    [][(call = Idle /\ call'.op = "_update_user_profile")
          => \A f \in C34_Upserted(facts, facts') :
                ExtractDateFromFact(f.fact_text) # NoDate
                   => C34_Stored(events', call'.chat_id,
                                 ExtractDateFromFact(f.fact_text))]_vars

(***************************************************************************)
(* Inputs of the /memory UI: chat 100 is the private chat of user 1, chat  *)
(* 200 a group in which facts about both users are learned. User 1 sends   *)
(* /memory with and without an argument, presses buttons the bot has       *)
(* shown, and sends texts; /memory in the group is turned away.            *)
(***************************************************************************)
UiArgs == {<<>>, <<IntTarget(2)>>, <<BadTarget>>}

UiButtons ==
    {Button(action, arg, target) :
        action \in {"list", "view", "del", "edit", "back"},
        arg \in 0 .. MaxFacts, target \in Users}

UiTexts == {TextC, <<" ">>, <<" ", "d">>}

NextUi ==
    \/ \E u \in Users, item \in TurnItems : UpsertUserFacts(u, 200, <<item>>)
    \/ \E args \in UiArgs : HandleMemoryCommand(RankChat, 1, "private", args)
    \/ \E u \in Users : HandleMemoryCommand(200, u, "group", <<>>)
    \/ \E button \in UiButtons : HandleMemoryCallback(RankChat, 1, button)
    \/ \E text \in UiTexts :
          MessageDispatcher(RankChat, 1, UserName, FirstName, text, FALSE, E1, FALSE,
                            FALSE, Response)
    \/ Return

SpecUi == Init /\ [][NextUi]_vars

(***************************************************************************)
(* C31: a text message is consumed by the edit reply exactly when its      *)
(* sender has a pending edit in the chat; consuming it removes that entry  *)
(* whatever the outcome and keeps the message from handle_message; a       *)
(* button press clears the pending edit of the presser before the button   *)
(* acts, so that only an Edit press leaves one, its own.                   *)
(***************************************************************************)
C31_Key == <<call'.chat_id, call'.user_id>>

C31_OthersKept ==
    \A k \in DOMAIN pending_edits : k # C31_Key => pending_edits'[k] = pending_edits[k]

C31_Message ==
    /\ (call'.op = "handle_memory_edit_reply") <=> (pending_edits[C31_Key] # NoEdit)
    /\ pending_edits'[C31_Key] = NoEdit
    /\ C31_OthersKept
    /\ call'.op = "handle_memory_edit_reply" => sessions' = sessions /\ profiles' = profiles
    /\ call'.op = "handle_message" => facts' = facts

C31_Button ==
    /\ pending_edits'[C31_Key] =
          IF call'.button.action = "edit"
          THEN <<call'.button.arg, call'.button.target>>
          ELSE NoEdit
    /\ C31_OthersKept

C31_PendingEditCapturesOneMessage ==
    [][/\ (call = Idle /\ call'.op \in {"handle_message", "handle_memory_edit_reply"})
          => C31_Message
       /\ (call = Idle /\ call'.op = "handle_memory_callback") => C31_Button]_vars

\* An edit reply has been consumed and has changed the text of the fact;
\* nothing is pending any more
C31_Witness ==
    /\ call.op = "handle_memory_edit_reply"
    /\ pending_edits[<<call.chat_id, call.user_id>>] = NoEdit
    /\ \E f \in facts : f.id = call.fact_id /\ f.fact_text = <<"d">>

(***************************************************************************)
(* C39: through the /memory UI a user deletes or edits only facts of their *)
(* own: a fact owned by another user is the same after the command, the    *)
(* button press or the edit reply of the user.                             *)
(***************************************************************************)
C39_Ui == {"handle_memory_command", "handle_memory_callback", "handle_memory_edit_reply"}

C39_OnlyOwnFactsDeletedOrEdited ==
    [][(call = Idle /\ call'.op \in C39_Ui)
          => \A f \in facts :
                (f.scope = "user" /\ f.user_id # call'.user_id) => f \in facts']_vars

====
